---------------------------- MODULE Spec2Model ----------------------------
(***************************************************************************)
(* Trade-history importers of Buckz-Journal: the free-text (PDF) driver of *)
(* src/src/app/api/parse-pdf/route.ts, and the CSV and spreadsheet drivers *)
(* of src/unnamed/part_000.                                                *)
(*                                                                         *)
(* A JavaScript string is a sequence of one-character strings.  A value    *)
(* that may be undefined is a sequence of length 0 (undefined) or 1.  A    *)
(* JavaScript number is NaN or an exact decimal m * 10^(-e), kept          *)
(* normalised (no trailing fractional zero).  Exponent notation and        *)
(* "Infinity" are outside the alphabets the inputs are drawn from.         *)
(*                                                                         *)
(* A value used several times is passed as an operator argument rather     *)
(* than named in a LET, so each source function is a short chain of        *)
(* operators; the comment on each says which lines it covers.              *)
(***************************************************************************)
EXTENDS Integers, Sequences, FiniteSets, TLC

\* ------------------------------------------------------------ characters
Digits == {"0", "1", "2", "3", "4", "5", "6", "7", "8", "9"}

DigitChars == <<"0", "1", "2", "3", "4", "5", "6", "7", "8", "9">>

LowerLetters ==
  <<"a","b","c","d","e","f","g","h","i","j","k","l","m",
    "n","o","p","q","r","s","t","u","v","w","x","y","z">>

UpperLetters ==
  <<"A","B","C","D","E","F","G","H","I","J","K","L","M",
    "N","O","P","Q","R","S","T","U","V","W","X","Y","Z">>

UpperSet == {UpperLetters[i] : i \in DOMAIN UpperLetters}

LowerSet == {LowerLetters[i] : i \in DOMAIN LowerLetters}

WhiteSpace == {" ", "\t", "\r"}

DigitValues ==
  [c \in Digits |-> (CHOOSE i \in DOMAIN DigitChars : DigitChars[i] = c) - 1]

DigitVal(c) == DigitValues[c]

LowerOf ==
  [c \in UpperSet |->
     LowerLetters[CHOOSE i \in DOMAIN UpperLetters : UpperLetters[i] = c]]

UpperOf ==
  [c \in LowerSet |->
     UpperLetters[CHOOSE i \in DOMAIN LowerLetters : LowerLetters[i] = c]]

toLowerChar(c) == IF c \in UpperSet THEN LowerOf[c] ELSE c

toUpperChar(c) == IF c \in LowerSet THEN UpperOf[c] ELSE c

\* String.prototype.toLowerCase / toUpperCase
toLowerCase(s) == [i \in 1..Len(s) |-> toLowerChar(s[i])]

toUpperCase(s) == [i \in 1..Len(s) |-> toUpperChar(s[i])]

\* String.prototype.includes
includes(s, sub) ==
  \E i \in 0..(Len(s) - Len(sub)) : SubSeq(s, i + 1, i + Len(sub)) = sub

\* the least and the greatest element of a non-empty set of integers
Least(S) == CHOOSE i \in S : \A j \in S : i <= j

Greatest(S) == CHOOSE i \in S : \A j \in S : i >= j

\* the number of leading characters of s that are in cs
PrefixIn(s, cs) ==
  CHOOSE n \in 0..Len(s) :
    /\ \A i \in 1..n : s[i] \in cs
    /\ (n < Len(s) => s[n + 1] \notin cs)

\* the number of trailing characters of s that are in cs
SuffixIn(s, cs) ==
  CHOOSE n \in 0..Len(s) :
    /\ \A i \in 1..n : s[Len(s) + 1 - i] \in cs
    /\ (n < Len(s) => s[Len(s) - n] \notin cs)

\* String.prototype.trim
trim(s) == SubSeq(s, PrefixIn(s, WhiteSpace) + 1, Len(s) - SuffixIn(s, WhiteSpace))

\* s.replace(/[...]/g, ''): every character of cs removed
RemoveAll(s, cs) == SelectSeq(s, LAMBDA c : c \notin cs)

RemoveAt(s, hits) ==
  IF hits = {} THEN s
  ELSE SubSeq(s, 1, Least(hits) - 1) \o SubSeq(s, Least(hits) + 1, Len(s))

\* s.replace(c, ''): only the first occurrence of c removed
RemoveFirst(s, c) == RemoveAt(s, {i \in 1..Len(s) : s[i] = c})

\* the positions of s that hold the character c
PositionsOf(s, c) == {i \in 1..Len(s) : s[i] = c}

\* the k-th smallest element of a set of integers
Nth(S, k) == CHOOSE p \in S : Cardinality({q \in S : q < p}) = k - 1

\* the k-th piece of s when s is cut at the positions cuts
PieceOf(s, cuts, k) ==
  SubSeq(s, IF k = 1 THEN 1 ELSE Nth(cuts, k - 1) + 1,
            IF k > Cardinality(cuts) THEN Len(s) ELSE Nth(cuts, k) - 1)

\* the pieces of s between the positions cuts, the positions themselves dropped
SplitAt(s, cuts) == [k \in 1..(Cardinality(cuts) + 1) |-> PieceOf(s, cuts, k)]

\* String.prototype.split(sep) for a one-character separator
split(s, sep) == SplitAt(s, PositionsOf(s, sep))

TrimEach(parts) == [i \in 1..Len(parts) |-> trim(parts[i])]

\* line.split(sep).map(s => s.trim()).filter(s => s)
SplitTrimFilter(line, sep) ==
  SelectSeq(TrimEach(split(line, sep)), LAMBDA t : t # <<>>)

\* --------------------------------------------------------------- values
Undef == <<>>

Some(v) == <<v>>

IsDef(o) == o # Undef

Val(o) == o[1]

NaN == [nan |-> TRUE, m |-> 0, e |-> 0]

\* the number m * 10^(-e)
RECURSIVE Num(_, _)
Num(m, e) ==
  IF e > 0 /\ m % 10 = 0 THEN Num(m \div 10, e - 1)
  ELSE [nan |-> FALSE, m |-> m, e |-> e]

Int2Num(n) == Num(n, 0)

RECURSIVE Pow10(_)
Pow10(e) == IF e = 0 THEN 1 ELSE 10 * Pow10(e - 1)

\* num > k and num < k for an integer k (false on NaN, as in JavaScript)
NumGt(x, k) == ~x.nan /\ x.m > k * Pow10(x.e)

NumLt(x, k) == ~x.nan /\ x.m < k * Pow10(x.e)

\* truthiness of a possibly undefined number / string
TruthyNum(o) == IsDef(o) /\ ~Val(o).nan /\ Val(o).m # 0

TruthyStr(o) == IsDef(o) /\ Val(o) # <<>>

RECURSIVE DigitsToInt(_)
DigitsToInt(s) ==
  IF s = <<>> THEN 0
  ELSE 10 * DigitsToInt(SubSeq(s, 1, Len(s) - 1)) + DigitVal(s[Len(s)])

\* parseFloat, last stage: n1 integer digits of s, n2 fraction digits of f
FloatOf(s, n1, f, n2, neg) ==
  IF n1 = 0 /\ n2 = 0 THEN NaN
  ELSE Num((IF neg THEN -1 ELSE 1) * DigitsToInt(SubSeq(s, 1, n1) \o SubSeq(f, 1, n2)),
           n2)

\* parseFloat after the integer digits: r is what follows them
FloatFraction(s, n1, r, neg) ==
  IF r # <<>> /\ r[1] = "."
    THEN FloatOf(s, n1, Tail(r), PrefixIn(Tail(r), Digits), neg)
    ELSE FloatOf(s, n1, <<>>, 0, neg)

FloatDigits(s, n1, neg) == FloatFraction(s, n1, SubSeq(s, n1 + 1, Len(s)), neg)

FloatUnsigned(s, neg) == FloatDigits(s, PrefixIn(s, Digits), neg)

FloatSigned(s0) ==
  IF s0 # <<>> /\ s0[1] \in {"-", "+"}
    THEN FloatUnsigned(Tail(s0), s0[1] = "-")
    ELSE FloatUnsigned(s0, FALSE)

\* parseFloat: leading white space, an optional sign, the longest prefix
\* digits [. digits] or . digits; NaN when there is none
parseFloat(str) ==
  FloatSigned(SubSeq(str, PrefixIn(str, WhiteSpace) + 1, Len(str)))

\* ------------------------------------------- route.ts: the record model
\* ParsedTradeData with every field optional (Partial<ParsedTradeData>)
TradeFields ==
  {"direction", "orderNumber", "expiryTime", "asset", "openTime", "closeTime",
   "openPrice", "closePrice", "tradeAmount", "profitAmount", "currency"}

\* const trade: Partial<ParsedTradeData> = {}
EmptyTrade == [f \in TradeFields |-> Undef]

S_call == <<"c","a","l","l">>

S_put == <<"p","u","t">>

S_USD == <<"U","S","D">>

\* parseCurrency: every '$' and ',' removed, the first '%' removed, parseFloat
parseCurrency(value) == parseFloat(RemoveFirst(RemoveAll(value, {"$", ","}), "%"))

\* isTradeComplete with the tradeAmount conjunct left out
isTradeCompleteNoAmount(trade) ==
  /\ TruthyStr(trade.direction)
  /\ TruthyStr(trade.asset)
  /\ IsDef(trade.profitAmount)

\* isTradeComplete: direction && asset && tradeAmount && profitAmount !== undefined
\* (route.ts 27-34, part_000 211-218 and 436-443 are the same function)
isTradeComplete(trade) ==
  /\ TruthyStr(trade.direction)
  /\ TruthyStr(trade.asset)
  /\ TruthyNum(trade.tradeAmount)
  /\ IsDef(trade.profitAmount)

\* return isTradeComplete(trade) ? trade : null
CompleteOrNull(trade) == IF isTradeComplete(trade) THEN Some(trade) ELSE Undef

AllDigits(t) == t # <<>> /\ \A i \in 1..Len(t) : t[i] \in Digits

\* /^#?\d+$/
IsOrderToken(s) ==
  IF s # <<>> /\ s[1] = "#" THEN AllDigits(Tail(s)) ELSE AllDigits(s)

\* /^[A-Z]+\/?[A-Z]*$/
IsAssetToken(s) ==
  /\ s # <<>>
  /\ s[1] \in UpperSet
  /\ \A i \in 1..Len(s) : s[i] \in UpperSet \cup {"/"}
  /\ Cardinality({i \in 1..Len(s) : s[i] = "/"}) <= 1

CurrencyCodes ==
  {<<"u","s","d">>, <<"e","u","r">>, <<"g","b","p">>, <<"j","p","y">>,
   <<"a","u","d">>, <<"c","a","d">>, <<"c","h","f">>}

\* /^(usd|eur|gbp|jpy|aud|cad|chf)$/i
IsCurrencyToken(s) == toLowerCase(s) \in CurrencyCodes

\* \d+\.?\d*
IsDecimal(b) ==
  /\ b # <<>>
  /\ b[1] \in Digits
  /\ \A i \in 1..Len(b) : b[i] \in Digits \cup {"."}
  /\ Cardinality({i \in 1..Len(b) : b[i] = "."}) <= 1

DropPercent(a) ==
  IF a # <<>> /\ a[Len(a)] = "%" THEN SubSeq(a, 1, Len(a) - 1) ELSE a

DropDollar(s) == IF s # <<>> /\ s[1] = "$" THEN Tail(s) ELSE s

\* /^\$?\d+\.?\d*%?$/
IsNumericToken(s) == IsDecimal(DropPercent(DropDollar(s)))

\* /\d{1,2}[:/]\d{2}/ or /\d{4}-\d{2}-\d{2}/, anywhere in the token
IsDateToken(s) ==
  \/ \E i \in 1..(Len(s) - 3) :
       /\ s[i] \in Digits
       /\ s[i + 1] \in {":", "/"}
       /\ s[i + 2] \in Digits
       /\ s[i + 3] \in Digits
  \/ \E i \in 1..(Len(s) - 9) :
       /\ \A j \in {0, 1, 2, 3, 5, 6, 8, 9} : s[i + j] \in Digits
       /\ s[i + 4] = "-"
       /\ s[i + 7] = "-"


\* the numeric branch with the openPrice slot written even when it is taken
PlaceNumericOverwrite(trade, value, num) ==
  IF includes(value, <<"%">>) /\ ~TruthyNum(trade.profitAmount)
    THEN [trade EXCEPT !.profitAmount = Some(num)]
  ELSE IF NumGt(num, 1000) /\ ~TruthyNum(trade.tradeAmount)
    THEN [trade EXCEPT !.tradeAmount = Some(num)]
  ELSE IF NumLt(num, 1000) /\ NumGt(num, 0)
    THEN [trade EXCEPT !.openPrice = Some(num)]
  ELSE trade

\* the numeric branch of parseDelimitedLine (route.ts 63-71) for the parsed
\* value num of the token
PlaceNumeric(trade, value, num) ==
  IF includes(value, <<"%">>) /\ ~TruthyNum(trade.profitAmount)
    THEN [trade EXCEPT !.profitAmount = Some(num)]
  ELSE IF NumGt(num, 1000) /\ ~TruthyNum(trade.tradeAmount)
    THEN [trade EXCEPT !.tradeAmount = Some(num)]
  ELSE IF NumLt(num, 1000) /\ NumGt(num, 0) /\ ~TruthyNum(trade.openPrice)
    THEN [trade EXCEPT !.openPrice = Some(num)]
  ELSE IF NumLt(num, 1000) /\ NumGt(num, 0) /\ ~TruthyNum(trade.closePrice)
    THEN [trade EXCEPT !.closePrice = Some(num)]
  ELSE trade

\* the date branch with the expiryTime slot written even when it is taken
PlaceDateOverwrite(trade, tok) ==
  IF ~TruthyStr(trade.openTime) THEN [trade EXCEPT !.openTime = Some(tok)]
  ELSE IF ~TruthyStr(trade.closeTime) THEN [trade EXCEPT !.closeTime = Some(tok)]
  ELSE [trade EXCEPT !.expiryTime = Some(tok)]

\* the date branch of parseDelimitedLine (route.ts 75-81)
PlaceDate(trade, tok) ==
  IF ~TruthyStr(trade.openTime) THEN [trade EXCEPT !.openTime = Some(tok)]
  ELSE IF ~TruthyStr(trade.closeTime) THEN [trade EXCEPT !.closeTime = Some(tok)]
  ELSE IF ~TruthyStr(trade.expiryTime) THEN [trade EXCEPT !.expiryTime = Some(tok)]
  ELSE trade

\* one iteration of the loop of parseDelimitedLine (route.ts 41-82) over
\* tok = values[i] and value = values[i].toLowerCase()
ClassifyToken(trade, tok, value) ==
  IF value = S_call \/ value = S_put
    THEN [trade EXCEPT !.direction = Some(value)]
  ELSE IF IsOrderToken(value) /\ ~TruthyStr(trade.orderNumber)
    THEN [trade EXCEPT !.orderNumber = Some(tok)]
  ELSE IF IsAssetToken(tok) /\ ~TruthyStr(trade.asset)
    THEN [trade EXCEPT !.asset = Some(tok)]
  ELSE IF IsCurrencyToken(value)
    THEN [trade EXCEPT !.currency = Some(toUpperCase(value))]
  ELSE IF IsNumericToken(tok) THEN PlaceNumeric(trade, value, parseCurrency(tok))
  ELSE IF IsDateToken(tok) THEN PlaceDate(trade, tok)
  ELSE trade

\* for (const raw of values): loop holds the record built so far and the
\* position of the next token
RECURSIVE ClassifyFrom(_, _)
ClassifyFrom(loop, values) ==
  IF loop.i > Len(values) THEN loop.trade
  ELSE ClassifyFrom([trade |-> ClassifyToken(loop.trade, values[loop.i],
                                             toLowerCase(values[loop.i])),
                     i |-> loop.i + 1],
                    values)

ClassifyAll(trade, values, i) == ClassifyFrom([trade |-> trade, i |-> i], values)

\* if (!trade.direction) trade.direction = 'call'
DefaultDirection(trade) ==
  IF ~TruthyStr(trade.direction) THEN [trade EXCEPT !.direction = Some(S_call)]
  ELSE trade

\* if (!trade.currency) trade.currency = 'USD'
DefaultCurrency(trade) ==
  IF ~TruthyStr(trade.currency) THEN [trade EXCEPT !.currency = Some(S_USD)]
  ELSE trade

\* the defaults parseDelimitedLine applies after its loop (route.ts 85-86)
DelimitedDefaults(trade) == DefaultCurrency(DefaultDirection(trade))

\* parseDelimitedLine: the classified record, or Undef for null
parseDelimitedLine(values) ==
  CompleteOrNull(DelimitedDefaults(ClassifyAll(EmptyTrade, values, 1)))

\* ------------------------------------ route.ts: the free-text line step
\* \s*(.+)$ on what follows the first ':' : the positions the value group can
\* start at; '.' matches no line terminator
ValueStarts(rest) ==
  {p \in 1..Len(rest) :
     /\ \A i \in 1..(p - 1) : rest[i] \in WhiteSpace
     /\ \A i \in p..Len(rest) : rest[i] # "\r"}

\* \s* is greedy: the value group starts as late as it can
KeyValueGroups(key, rest, starts) ==
  IF key = <<>> \/ starts = {} THEN Undef
  ELSE Some([key |-> key, value |-> SubSeq(rest, Greatest(starts), Len(rest))])

KeyValueAt(line, k) ==
  KeyValueGroups(SubSeq(line, 1, k - 1), SubSeq(line, k + 1, Len(line)),
                 ValueStarts(SubSeq(line, k + 1, Len(line))))

KeyValueColons(line, colons) ==
  IF colons = {} THEN Undef ELSE KeyValueAt(line, Least(colons))

\* line.match(/^([^:]+):\s*(.+)$/): Undef, or the key and the value groups;
\* the key ends at the first ':'
KeyValueMatch(line) == KeyValueColons(line, {i \in 1..Len(line) : line[i] = ":"})

\* value.replace(/[^0-9.]/g, '')
KeepNumeric(value) == SelectSeq(value, LAMBDA c : c \in Digits \cup {"."})

\* value.toLowerCase().includes('call') ? 'call' : 'put'
KeyValueDirection(value) ==
  IF includes(toLowerCase(value), S_call) THEN S_call ELSE S_put

\* the if / else-if chain over normalizedKey (route.ts 119-141)
AssignByKey(trade, normalizedKey, value) ==
  IF includes(normalizedKey, <<"o","r","d","e","r">>) \/ includes(normalizedKey, <<"o","r","d","e","r"," ","#">>)
    THEN [trade EXCEPT !.orderNumber = Some(value)]
  ELSE IF includes(normalizedKey, <<"a","s","s","e","t">>) \/ includes(normalizedKey, <<"s","y","m","b","o","l">>)
    THEN [trade EXCEPT !.asset = Some(toUpperCase(value))]
  ELSE IF includes(normalizedKey, <<"c","a","l","l">>) \/ includes(normalizedKey, <<"p","u","t">>)
    THEN [trade EXCEPT !.direction = Some(KeyValueDirection(value))]
  ELSE IF includes(normalizedKey, <<"a","m","o","u","n","t">>) \/ includes(normalizedKey, <<"i","n","v","e","s","t","m","e","n","t">>)
    THEN [trade EXCEPT !.tradeAmount = Some(parseCurrency(value))]
  ELSE IF \/ includes(normalizedKey, <<"p","r","o","f","i","t">>)
          \/ includes(normalizedKey, <<"p","a","y","o","u","t">>)
          \/ includes(normalizedKey, <<"p","/","l">>)
    THEN [trade EXCEPT !.profitAmount = Some(parseCurrency(value))]
  ELSE IF includes(normalizedKey, <<"o","p","e","n"," ","p","r","i","c","e">>)
    THEN [trade EXCEPT !.openPrice = Some(parseFloat(KeepNumeric(value)))]
  ELSE IF includes(normalizedKey, <<"c","l","o","s","e"," ","p","r","i","c","e">>)
    THEN [trade EXCEPT !.closePrice = Some(parseFloat(KeepNumeric(value)))]
  ELSE IF includes(normalizedKey, <<"o","p","e","n"," ","t","i","m","e">>)
    THEN [trade EXCEPT !.openTime = Some(value)]
  ELSE IF includes(normalizedKey, <<"c","l","o","s","e"," ","t","i","m","e">>)
    THEN [trade EXCEPT !.closeTime = Some(value)]
  ELSE IF includes(normalizedKey, <<"e","x","p","i","r">>)
    THEN [trade EXCEPT !.expiryTime = Some(value)]
  ELSE IF includes(normalizedKey, <<"c","u","r","r","e","n","c","y">>)
    THEN [trade EXCEPT !.currency = Some(value)]
  ELSE trade

\* the chain over the key as written: const normalizedKey = key.trim()
AssignKeyValueAsWritten(trade, key, value) ==
  AssignByKey(trade, trim(key), value)

\* const normalizedKey = key.toLowerCase().trim(), then the chain
AssignKeyValue(trade, key, value) ==
  AssignByKey(trade, trim(toLowerCase(key)), value)

\* The state of one run of a driver: the accumulator currentTrade of
\* parseTextToTrades (Undef for null), the output trades, and for each output
\* record the sheet (0 outside a workbook) and the line or row it was pushed
\* at and the pattern that pushed it.
RunStart == [currentTrade |-> Undef, trades |-> <<>>, origin |-> <<>>]

\* trades.push(trade)
Push(st, trade, sheet, idx, kind) ==
  [st EXCEPT !.trades = Append(st.trades, trade),
             !.origin = Append(st.origin, [sheet |-> sheet, at |-> idx, kind |-> kind])]

\* the flush without "currentTrade = null"
FlushAndKeep(st, upd, idx) ==
  IF isTradeComplete(upd)
    THEN [Push(st, upd, 0, idx, "kv") EXCEPT !.currentTrade = Some(upd)]
    ELSE [st EXCEPT !.currentTrade = Some(upd)]

\* the accumulator kept without the completeness check of the line
FlushAtEnd(st, upd, idx) == [st EXCEPT !.currentTrade = Some(upd)]

\* if (isTradeComplete(currentTrade)) { trades.push(...); currentTrade = null }
FlushIfComplete(st, upd, idx) ==
  IF isTradeComplete(upd)
    THEN [Push(st, upd, 0, idx, "kv") EXCEPT !.currentTrade = Undef]
    ELSE [st EXCEPT !.currentTrade = Some(upd)]

\* if (!currentTrade) currentTrade = {}
Accumulator(st) ==
  IF IsDef(st.currentTrade) THEN Val(st.currentTrade) ELSE EmptyTrade

KeyValueApply(st, kv, idx) ==
  IF ~IsDef(kv) THEN st
  ELSE FlushIfComplete(st, AssignKeyValue(Accumulator(st), Val(kv).key, Val(kv).value),
                       idx)

\* Pattern 2 (route.ts 112-147) on one line
KeyValueStep(st, line, idx) == KeyValueApply(st, KeyValueMatch(line), idx)

PushIfParsed(st, n, least, trade, idx, kind) ==
  IF n >= least /\ IsDef(trade) THEN Push(st, Val(trade), 0, idx, kind) ELSE st

CommaTokens(st, csvDelimited, idx) ==
  PushIfParsed(st, Len(csvDelimited), 8, parseDelimitedLine(csvDelimited), idx, "comma")

\* Pattern 3 (route.ts 150-156) on one line
CommaStep(st, line, idx) == CommaTokens(st, SplitTrimFilter(line, ","), idx)

\* Pattern 1 (route.ts 102-109): whether the pipe attempt pushes a record
PipeParsed(n, trade) == n >= 10 /\ IsDef(trade)

\* patterns 2 and 3 tried in the other order
CommaBeforeKeyValue(st, line, idx, n, trade) ==
  IF PipeParsed(n, trade) THEN Push(st, Val(trade), 0, idx, "pipe")
  ELSE KeyValueStep(CommaStep(st, line, idx), line, idx)

\* pattern 1 without its continue: patterns 2 and 3 are tried on every line
PipeThenRest(st, line, idx, n, trade) ==
  CommaStep(KeyValueStep(IF PipeParsed(n, trade) THEN Push(st, Val(trade), 0, idx, "pipe")
                         ELSE st,
                         line, idx),
            line, idx)

PipeOrRest(st, line, idx, n, trade) ==
  IF PipeParsed(n, trade) THEN Push(st, Val(trade), 0, idx, "pipe")
  ELSE CommaStep(KeyValueStep(st, line, idx), line, idx)

PipeTokens(st, line, idx, pipeDelimited) ==
  PipeOrRest(st, line, idx, Len(pipeDelimited), parseDelimitedLine(pipeDelimited))

\* the body of the loop over lines (route.ts 100-157): pattern 1 and, unless
\* it pushed a record (continue), patterns 2 and 3
TextLineBody(st, line, idx) == PipeTokens(st, line, idx, SplitTrimFilter(line, "|"))

\* the check after the loop over n lines (route.ts 159-161)
TextFinish(st, n) ==
  IF IsDef(st.currentTrade) /\ isTradeComplete(Val(st.currentTrade))
    THEN Push(st, Val(st.currentTrade), 0, n + 1, "end")
    ELSE st

\* text.split('\n').filter(line => line.trim())
NonBlank(rawLines) == SelectSeq(rawLines, LAMBDA l : trim(l) # <<>>)

\* for (const line of lines): loop holds the run so far and the position of
\* the next line
RECURSIVE TextFrom(_, _)
TextFrom(loop, lines) ==
  IF loop.i > Len(lines) THEN loop.st
  ELSE TextFrom([st |-> TextLineBody(loop.st, lines[loop.i], loop.i),
                 i |-> loop.i + 1],
                lines)

TextFold(st, lines, i) == TextFrom([st |-> st, i |-> i], lines)

TextRun(lines) == TextFinish(TextFold(RunStart, lines, 1), Len(lines))

\* parseTextToTrades on the text whose lines are rawLines
parseTextToTrades(rawLines) == TextRun(NonBlank(rawLines)).trades


\* --------------------------------------------- part_000: the CSV importer
\* canonical field -> its accepted header names, in declared order
\* (part_000 34-46; 255-267 is the same table)
COLUMN_MAP ==
  [f \in TradeFields |->
     CASE f = "direction" ->
            <<<<"c","a","l","l","/","p","u","t">>,
              <<"d","i","r","e","c","t","i","o","n">>,
              <<"t","y","p","e">>,
              <<"t","r","a","d","e"," ","t","y","p","e">>,
              <<"o","p","t","i","o","n"," ","t","y","p","e">>,
              <<"s","i","d","e">>>>
       [] f = "orderNumber" ->
            <<<<"o","r","d","e","r"," ","#">>,
              <<"o","r","d","e","r"," ","n","u","m","b","e","r">>,
              <<"o","r","d","e","r"," ","i","d">>,
              <<"o","r","d","e","r">>,
              <<"i","d">>,
              <<"t","i","c","k","e","t">>>>
       [] f = "expiryTime" ->
            <<<<"e","x","p","i","r","y">>,
              <<"e","x","p","i","r","y"," ","t","i","m","e">>,
              <<"e","x","p","i","r","a","t","i","o","n">>,
              <<"e","x","p">>,
              <<"e","x","p","i","r","a","t","i","o","n"," ","t","i","m","e">>>>
       [] f = "asset" ->
            <<<<"a","s","s","e","t">>,
              <<"s","y","m","b","o","l">>,
              <<"s","t","o","c","k">>,
              <<"t","i","c","k","e","r">>,
              <<"i","n","s","t","r","u","m","e","n","t">>,
              <<"p","a","i","r">>>>
       [] f = "openTime" ->
            <<<<"o","p","e","n"," ","t","i","m","e">>,
              <<"e","n","t","r","y"," ","t","i","m","e">>,
              <<"s","t","a","r","t"," ","t","i","m","e">>,
              <<"o","p","e","n"," ","d","a","t","e">>,
              <<"e","n","t","r","y"," ","d","a","t","e">>>>
       [] f = "closeTime" ->
            <<<<"c","l","o","s","e"," ","t","i","m","e">>,
              <<"e","x","i","t"," ","t","i","m","e">>,
              <<"e","n","d"," ","t","i","m","e">>,
              <<"c","l","o","s","e"," ","d","a","t","e">>,
              <<"e","x","i","t"," ","d","a","t","e">>>>
       [] f = "openPrice" ->
            <<<<"o","p","e","n"," ","p","r","i","c","e">>,
              <<"e","n","t","r","y"," ","p","r","i","c","e">>,
              <<"s","t","r","i","k","e"," ","p","r","i","c","e">>,
              <<"o","p","e","n">>>>
       [] f = "closePrice" ->
            <<<<"c","l","o","s","e"," ","p","r","i","c","e">>,
              <<"e","x","i","t"," ","p","r","i","c","e">>,
              <<"c","l","o","s","e">>>>
       [] f = "tradeAmount" ->
            <<<<"a","m","o","u","n","t">>,
              <<"t","r","a","d","e"," ","a","m","o","u","n","t">>,
              <<"i","n","v","e","s","t","m","e","n","t">>,
              <<"s","t","a","k","e">>,
              <<"t","r","a","d","e"," ","s","i","z","e">>>>
       [] f = "profitAmount" ->
            <<<<"p","r","o","f","i","t">>,
              <<"p","/","l">>,
              <<"p","a","y","o","u","t">>,
              <<"p","r","o","f","i","t","/","l","o","s","s">>,
              <<"r","e","t","u","r","n">>>>
       [] f = "currency" ->
            <<<<"c","u","r","r","e","n","c","y">>,
              <<"c","c","y">>,
              <<"p","a","i","r"," ","c","u","r","r","e","n","c","y">>>>]

StringFields == {"orderNumber", "expiryTime", "openTime", "closeTime"}

PriceFields == {"openPrice", "closePrice"}

NumberFields == {"openPrice", "closePrice", "tradeAmount", "profitAmount"}

\* parseCSVLine: '"' toggles inQuotes and is dropped, ',' outside quotes ends
\* a field, every field is trimmed.  inQuotes at position i is the parity of
\* the number of '"' before i.
OutsideQuotes(quotes, i) == Cardinality({q \in quotes : q < i}) % 2 = 0

FieldEnds(line, quotes) ==
  {i \in PositionsOf(line, ",") : OutsideQuotes(quotes, i)}

CSVFields(pieces) ==
  [k \in 1..Len(pieces) |-> trim(RemoveAll(pieces[k], {"\""}))]

parseCSVLine(line) ==
  CSVFields(SplitAt(line, FieldEnds(line, PositionsOf(line, "\""))))

\* headers.map(h => h.toLowerCase().trim())
NormalizeHeaders(headers) == [i \in 1..Len(headers) |-> trim(toLowerCase(headers[i]))]

\* normalizedHeaders.findIndex(h => h === name): the indices that match
HeaderHits(normalizedHeaders, name) ==
  {i \in 1..Len(normalizedHeaders) : normalizedHeaders[i] = name}

\* the aliases of a field, by position, that some header cell equals
AliasesFound(normalizedHeaders, names) ==
  {k \in 1..Len(names) : HeaderHits(normalizedHeaders, toLowerCase(names[k])) # {}}

\* the inner loop run over the header cells instead: the first header cell
\* that is an alias of the field decides
FirstColumnIndex(normalizedHeaders, names, found) ==
  IF found = {} THEN Undef
  ELSE Some(Least(UNION {HeaderHits(normalizedHeaders, toLowerCase(names[k])) :
                           k \in found}))

\* the inner loop of mapColumnIndices: the first alias found decides, and
\* findIndex gives its first header cell
FirstAliasIndex(normalizedHeaders, names, found) ==
  IF found = {} THEN Undef
  ELSE Some(Least(HeaderHits(normalizedHeaders, toLowerCase(names[Least(found)]))))

ColumnIndicesOf(normalizedHeaders) ==
  [f \in TradeFields |->
     FirstAliasIndex(normalizedHeaders, COLUMN_MAP[f],
                     AliasesFound(normalizedHeaders, COLUMN_MAP[f]))]

\* mapColumnIndices: field -> Some(index of the first alias found), or Undef
mapColumnIndices(headers) == ColumnIndicesOf(NormalizeHeaders(headers))

\* values[index]: Undef past the end of the array
At(values, index) == IF index \in 1..Len(values) THEN Some(values[index]) ELSE Undef

\* value || dflt for a possibly undefined string
OrElse(o, dflt) == IF TruthyStr(o) THEN Val(o) ELSE dflt

\* x || 0 for a number
NumOrZero(x) == IF x.nan THEN Int2Num(0) ELSE x

DirectionOf(normalized) ==
  IF \/ includes(normalized, S_call)
     \/ includes(normalized, <<"b","u","y">>)
     \/ includes(normalized, <<"l","o","n","g">>)
    THEN S_call
  ELSE IF \/ includes(normalized, S_put)
          \/ includes(normalized, <<"s","e","l","l">>)
          \/ includes(normalized, <<"s","h","o","r","t">>)
    THEN S_put
  ELSE S_call

\* parseDirection of the CSV importer (part_000 189-198)
parseDirection(value) == DirectionOf(trim(toLowerCase(OrElse(value, <<>>))))

\* parseNumber without the "|| 0"
parseNumberNoFallback(value) ==
  parseFloat(trim(RemoveFirst(RemoveAll(OrElse(value, <<"0">>), {"$", ","}), "%")))

\* parseNumber of the CSV importer (part_000 203-206)
parseNumber(value) ==
  NumOrZero(parseFloat(trim(
    RemoveFirst(RemoveAll(OrElse(value, <<"0">>), {"$", ","}), "%"))))

\* the defaults of parseCSVRow and parseExcelRow (part_000 171-178, 357-364)
RowDefaults(trade) ==
  [f \in TradeFields |->
     CASE f = "direction" -> IF TruthyStr(trade[f]) THEN trade[f] ELSE Some(S_call)
       [] f = "currency" -> IF TruthyStr(trade[f]) THEN trade[f] ELSE Some(S_USD)
       [] f \in StringFields -> IF TruthyStr(trade[f]) THEN trade[f] ELSE Some(<<>>)
       [] f \in PriceFields -> IF TruthyNum(trade[f]) THEN trade[f] ELSE Some(Int2Num(0))
       [] OTHER -> trade[f]]

\* one assignment of parseCSVRow for a mapped field and its cell values[index]
CSVCoerce(f, cell) ==
  CASE f = "direction" -> parseDirection(cell)
    [] f \in StringFields -> OrElse(cell, <<>>)
    [] f = "asset" -> toUpperCase(OrElse(cell, <<>>))
    [] f \in NumberFields -> parseNumber(cell)
    [] f = "currency" -> toUpperCase(OrElse(cell, S_USD))

\* the assignments of parseCSVRow (part_000 136-168): a field is written only
\* when its column is mapped
CSVExtract(values, columnIndices) ==
  [f \in TradeFields |->
     IF ~IsDef(columnIndices[f]) THEN Undef
     ELSE Some(CSVCoerce(f, At(values, Val(columnIndices[f]))))]

\* parseCSVRow: the record of one row, or Undef for null
parseCSVRow(values, columnIndices) ==
  CompleteOrNull(RowDefaults(CSVExtract(values, columnIndices)))

\* ------------------------------------- part_000: the spreadsheet importer
\* A cell of a row object: null, a string or a number.  A row object is the
\* sequence of its [key, value] entries in Object.keys order, keys distinct.
NullCell == [t |-> "null", s |-> <<>>, n |-> NaN]

StrCell(s) == [t |-> "str", s |-> s, n |-> NaN]

NumCell(n) == [t |-> "num", s |-> <<>>, n |-> n]

RECURSIVE NatToString(_)
NatToString(n) ==
  IF n < 10 THEN <<DigitChars[n + 1]>>
  ELSE Append(NatToString(n \div 10), DigitChars[(n % 10) + 1])

\* the e fraction digits of frac, zero-padded on the left
RECURSIVE FractionDigits(_, _)
FractionDigits(frac, e) ==
  IF e = 0 THEN <<>>
  ELSE Append(FractionDigits(frac \div 10, e - 1), DigitChars[(frac % 10) + 1])

DecimalString(neg, a, e) ==
  (IF neg THEN <<"-">> ELSE <<>>)
    \o NatToString(a \div Pow10(e))
    \o (IF e = 0 THEN <<>> ELSE <<".">> \o FractionDigits(a % Pow10(e), e))

\* String(x) for a number, in plain decimal notation
NumToString(x) ==
  IF x.nan THEN <<"N","a","N">>
  ELSE DecimalString(x.m < 0, IF x.m < 0 THEN 0 - x.m ELSE x.m, x.e)

\* String(value) for a cell that is not null
CellToString(cell) == IF cell.t = "num" THEN NumToString(cell.n) ELSE cell.s

\* Object.keys(row)
RowKeys(row) == [i \in 1..Len(row) |-> row[i].key]

\* row[key] for a key of the row
RowGet(row, key) == row[Least({i \in 1..Len(row) : row[i].key = key})].value

\* value !== null && value !== undefined && value !== ''
NonEmptyCell(cell) == cell.t = "num" \/ (cell.t = "str" /\ cell.s # <<>>)

\* Object.keys(row).map(col => col.toLowerCase().trim())
ActualColumns(keys) == [i \in 1..Len(keys) |-> trim(toLowerCase(keys[i]))]

\* Object.keys(row).find(col => col.toLowerCase().trim() === matchedColumn)
OriginalColumn(keys, actualColumns, name) ==
  keys[Least({i \in 1..Len(keys) : actualColumns[i] = name})]

\* the aliases of a field, in declared order, that a key of the row matches
MatchedAliases(actualColumns, names) ==
  SelectSeq(names, LAMBDA name :
    name # <<>> /\ \E i \in 1..Len(actualColumns) : actualColumns[i] = toLowerCase(name))

OriginalColumns(keys, actualColumns, matched) ==
  [k \in 1..Len(matched) |-> OriginalColumn(keys, actualColumns, toLowerCase(matched[k]))]

MappingOf(keys, actualColumns) ==
  [f \in TradeFields |->
     OriginalColumns(keys, actualColumns, MatchedAliases(actualColumns, COLUMN_MAP[f]))]

\* mapColumns (part_000 375-408): for each field, for each alias in declared
\* order that equals a lower-cased trimmed key of the row, the first original
\* key that lower-cases to it
mapColumns(row) == MappingOf(RowKeys(row), ActualColumns(RowKeys(row)))

\* parseDirection of the spreadsheet importer (part_000 413-422)
Excel_parseDirection(cell) == DirectionOf(trim(toLowerCase(CellToString(cell))))

\* parseNumber of the spreadsheet importer (part_000 427-431)
Excel_parseNumber(cell) ==
  IF cell.t = "num" THEN cell.n
  ELSE NumOrZero(parseFloat(trim(
         RemoveFirst(RemoveAll(CellToString(cell), {"$", ","}), "%"))))

\* the switch with the asset kept as written
ExcelCoerceAsWritten(f, cell) ==
  CASE f = "direction" -> Excel_parseDirection(cell)
    [] f \in StringFields \cup {"asset"} -> CellToString(cell)
    [] f = "currency" -> toUpperCase(CellToString(cell))
    [] f \in NumberFields -> Excel_parseNumber(cell)

\* the switch of parseExcelRow (part_000 316-350)
ExcelCoerce(f, cell) ==
  CASE f = "direction" -> Excel_parseDirection(cell)
    [] f \in StringFields -> CellToString(cell)
    [] f \in {"asset", "currency"} -> toUpperCase(CellToString(cell))
    [] f \in NumberFields -> Excel_parseNumber(cell)

\* the cells of the candidate keys of a field, in order, that are not empty
FilledCells(row, possibleKeys) ==
  SelectSeq([k \in 1..Len(possibleKeys) |-> RowGet(row, possibleKeys[k])], NonEmptyCell)

\* the inner loop of parseExcelRow (part_000 313-353): the first candidate key
\* whose cell is not empty is coerced, then break
ExcelField(f, cells) == IF cells = <<>> THEN Undef ELSE Some(ExcelCoerce(f, cells[1]))

ExcelExtractWith(row, columnMapping) ==
  [f \in TradeFields |-> ExcelField(f, FilledCells(row, columnMapping[f]))]

\* the loops of parseExcelRow (part_000 307-354)
ExcelExtract(row) == ExcelExtractWith(row, mapColumns(row))

\* parseExcelRow: the record of one row object, or Undef for null
parseExcelRow(row) == CompleteOrNull(RowDefaults(ExcelExtract(row)))


\* ------------------------------------------------- free-text inputs
\* Asset: TSLA
T_asset ==
  <<"A","s","s","e","t",":"," ","T","S","L","A">>

\* Amount: $200
T_amount ==
  <<"A","m","o","u","n","t",":"," ","$","2","0","0">>

\* Profit: 15%
T_profit ==
  <<"P","r","o","f","i","t",":"," ","1","5","%">>

\* call | #1001 | AAPL | USD | 85% | 1500 | 120.50 | 119.00 | 2024-01-01 | 2024-01-02
T_pipe ==
  <<"c","a","l","l"," ","|"," ","#","1","0","0","1"," ","|"," ","A",
    "A","P","L"," ","|"," ","U","S","D"," ","|"," ","8","5","%"," ",
    "|"," ","1","5","0","0"," ","|"," ","1","2","0",".","5","0"," ",
    "|"," ","1","1","9",".","0","0"," ","|"," ","2","0","2","4","-",
    "0","1","-","0","1"," ","|"," ","2","0","2","4","-","0","1","-",
    "0","2">>

\* Call/Put: put, #7, AAPL, USD, 1500, 85%, 2024-01-01, 12:30
T_both ==
  <<"C","a","l","l","/","P","u","t",":"," ","p","u","t",","," ","#",
    "7",","," ","A","A","P","L",","," ","U","S","D",","," ","1","5",
    "0","0",","," ","8","5","%",","," ","2","0","2","4","-","0","1",
    "-","0","1",","," ","1","2",":","3","0">>

\* the lines a decoded text is made of
TextCorpus == {T_asset, T_amount, T_profit, T_pipe, T_both}

\* ------------------------------------------------------- CSV inputs
\* Asset,Amount,Profit
H_basic ==
  <<"A","s","s","e","t",",","A","m","o","u","n","t",",","P","r","o",
    "f","i","t">>

\* Symbol,Direction,Trade Amount,P/L,Open Price,Currency
H_rich ==
  <<"S","y","m","b","o","l",",","D","i","r","e","c","t","i","o","n",
    ",","T","r","a","d","e"," ","A","m","o","u","n","t",",","P","/",
    "L",",","O","p","e","n"," ","P","r","i","c","e",",","C","u","r",
    "r","e","n","c","y">>

\* TSLA,$200,15%
R_tsla ==
  <<"T","S","L","A",",","$","2","0","0",",","1","5","%">>

\* AAPL,"$1,234.50",85%
R_quoted ==
  <<"A","A","P","L",",","\"","$","1",",","2","3","4",".","5","0","\"",
    ",","8","5","%">>

\* TSLA,0,15%
R_zero ==
  <<"T","S","L","A",",","0",",","1","5","%">>

\* TSLA,200
R_short ==
  <<"T","S","L","A",",","2","0","0">>

\* EUR/USD,sell,1500,n/a,1.05,eur
R_rich ==
  <<"E","U","R","/","U","S","D",",","s","e","l","l",",","1","5","0",
    "0",",","n","/","a",",","1",".","0","5",",","e","u","r">>

\* ,200,15%
R_noasset ==
  <<",","2","0","0",",","1","5","%">>

\* header lines and data lines a CSV text is made of
CsvHeaderCorpus == {H_basic, H_rich}

CsvRowCorpus == {R_tsla, R_quoted, R_zero, R_short, R_rich, R_noasset}

\* ----------------------------------------------- spreadsheet inputs
\* {Symbol: "aapl", "Call/Put": "Put", Amount: "1500", Profit: null}
X_noprofit ==
  <<[key |-> <<"S","y","m","b","o","l">>, value |-> StrCell(<<"a","a","p","l">>)],
    [key |-> <<"C","a","l","l","/","P","u","t">>, value |-> StrCell(<<"P","u","t">>)],
    [key |-> <<"A","m","o","u","n","t">>, value |-> StrCell(<<"1","5","0","0">>)],
    [key |-> <<"P","r","o","f","i","t">>, value |-> NullCell]>>

\* {ASSET: "EUR/USD", Side: "long", Stake: "1,500", Payout: "abc", Close: "1.05"}
X_long ==
  <<[key |-> <<"A","S","S","E","T">>, value |-> StrCell(<<"E","U","R","/","U","S","D">>)],
    [key |-> <<"S","i","d","e">>, value |-> StrCell(<<"l","o","n","g">>)],
    [key |-> <<"S","t","a","k","e">>, value |-> StrCell(<<"1",",","5","0","0">>)],
    [key |-> <<"P","a","y","o","u","t">>, value |-> StrCell(<<"a","b","c">>)],
    [key |-> <<"C","l","o","s","e">>, value |-> StrCell(<<"1",".","0","5">>)]>>

\* row objects a decoded sheet is made of
ExcelRowCorpus == {X_noprofit, X_long}

\* workbook.SheetNames of the workbooks considered
SheetNames == <<"Sheet1", "Sheet2">>

\* ------------------------------------------ the drivers, row / line steps
\* the loop of parseCsvTrades without its length check
CSVRowAlwaysAccepted(values, header) == TRUE

\* if (values.length < header.length) continue
CSVRowAccepted(values, header) == Len(values) >= Len(header)

\* a loop in which a row without a record discards what was collected
CsvPushOrAbort(st, accepted, trade, idx) ==
  IF accepted /\ IsDef(trade) THEN Push(st, Val(trade), 0, idx, "csv")
  ELSE [st EXCEPT !.trades = <<>>, !.origin = <<>>]

CsvPushIfParsed(st, accepted, trade, idx) ==
  IF accepted /\ IsDef(trade) THEN Push(st, Val(trade), 0, idx, "csv") ELSE st

CsvRowValues(st, values, header, columnIndices, idx) ==
  CsvPushIfParsed(st, CSVRowAccepted(values, header),
                  parseCSVRow(values, columnIndices), idx)

\* the body of the loop of parseCsvTrades (part_000 66-74) on data line idx
CsvRowBody(st, line, header, columnIndices, idx) ==
  CsvRowValues(st, parseCSVLine(line), header, columnIndices, idx)

\* for (let i = 1; i < lines.length; i++): loop holds the run so far and i
RECURSIVE CsvFrom(_, _, _, _)
CsvFrom(loop, lines, header, columnIndices) ==
  IF loop.i > Len(lines) THEN loop.st
  ELSE CsvFrom([st |-> CsvRowBody(loop.st, lines[loop.i], header, columnIndices,
                                  loop.i),
                i |-> loop.i + 1],
               lines, header, columnIndices)

CsvFold(st, lines, header, columnIndices, i) ==
  CsvFrom([st |-> st, i |-> i], lines, header, columnIndices)

CsvRunHeader(lines, header) ==
  CsvFold(RunStart, lines, header, mapColumnIndices(header), 2)

\* parseCsvTrades past its empty-text check (part_000 60-76)
CsvRun(lines) == CsvRunHeader(lines, parseCSVLine(lines[1]))

CsvLines(lines) == IF Len(lines) = 0 THEN <<>> ELSE CsvRun(lines).trades

\* parseCsvTrades on the text whose lines are rawLines
parseCsvTrades(rawLines) == CsvLines(NonBlank(rawLines))

ExcelPushIfParsed(st, trade, sheet, idx) ==
  IF IsDef(trade) THEN Push(st, Val(trade), sheet, idx, "excel") ELSE st

\* the body of the inner loop of parseExcelTrades (part_000 286-291)
ExcelRowBody(st, row, sheet, idx) ==
  ExcelPushIfParsed(st, parseExcelRow(row), sheet, idx)

\* for (const row of jsonData): loop holds the run so far and the next row
RECURSIVE ExcelRowsFrom(_, _, _)
ExcelRowsFrom(loop, rows, sheet) ==
  IF loop.i > Len(rows) THEN loop.st
  ELSE ExcelRowsFrom([st |-> ExcelRowBody(loop.st, rows[loop.i], sheet, loop.i),
                      i |-> loop.i + 1],
                     rows, sheet)

ExcelRows(st, rows, sheet, i) == ExcelRowsFrom([st |-> st, i |-> i], rows, sheet)

\* for (const sheetName of workbook.SheetNames): loop holds the run so far
\* and the next sheet
RECURSIVE ExcelSheetsFrom(_, _)
ExcelSheetsFrom(loop, sheets) ==
  IF loop.i > Len(sheets) THEN loop.st
  ELSE ExcelSheetsFrom([st |-> ExcelRows(loop.st, sheets[loop.i], loop.i, 1),
                        i |-> loop.i + 1],
                       sheets)

ExcelSheets(st, sheets, k) == ExcelSheetsFrom([st |-> st, i |-> k], sheets)

\* parseExcelTrades on the workbook whose sheets, in SheetNames order, hold
\* the row objects sheets[k]
parseExcelTrades(sheets) == ExcelSheets(RunStart, sheets, 1).trades

\* ---------------------------------------------------------------- bounds
\* lines of a free text, data lines of a CSV text, rows of a sheet
MaxLines == 4

MaxRows == 3

MaxSheetRows == 2

\* ----------------------------------------------------------------- state
\* ------------------------------------------- route.ts: the POST handler
\* String.prototype.endsWith
endsWith(s, suffix) ==
  Len(s) >= Len(suffix) /\ SubSeq(s, Len(s) - Len(suffix) + 1, Len(s)) = suffix

S_pdf == <<".","p","d","f">>

\* NextResponse.json(body, {status}): error and trades are the fields of the
\* body, Undef when the body does not have them
Json(status, error, trades) == [status |-> status, error |-> error, trades |-> trades]

\* The request being served: phase is "idle" (none), "decoding" (awaiting
\* parser.getText()) or "responded"; file is formData.get('file'), Undef for
\* null and otherwise the entry; decoderCalled and engineCalled
\* tell whether PDFParse and parseTextToTrades were invoked; thrown is the
\* value caught by the handler, text the decoded text, response the answer.
PostIdle ==
  [phase |-> "idle", file |-> Undef, decoderCalled |-> FALSE, engineCalled |-> FALSE,
   thrown |-> Undef, text |-> Undef, response |-> Undef]

\* the catch block of POST (route.ts 186-192)
PostCatch(p, error) ==
  [p EXCEPT !.phase = "responded",
            !.thrown = Some(error),
            !.response = Some(Json(500,
                                   Some(IF error.isError THEN error.message
                                        ELSE "Failed to parse PDF"),
                                   Undef))]

\* An entry of the form data: a File with its name, or the string of a text
\* field
FileEntry(name) == [kind |-> "file", name |-> name]

StringEntry(value) == [kind |-> "string", value |-> value]

\* !file, for file = formData.get('file'): null and '' are falsy
NoEntry(file) == ~IsDef(file) \/ Val(file) = StringEntry(<<>>)

\* what file.name.toLowerCase() raises when file is a string
NameTypeError ==
  [isError |-> TRUE,
   message |-> "Cannot read properties of undefined (reading 'toLowerCase')"]

\* POST up to its first await on the decoder (route.ts 168-182): the two
\* early returns, else the decoder is started
PostBegin(file) ==
  IF NoEntry(file)
    THEN [PostIdle EXCEPT !.phase = "responded", !.file = file,
                          !.response = Some(Json(400, Some("No file provided"), Undef))]
  ELSE IF Val(file).kind = "string"
    THEN PostCatch([PostIdle EXCEPT !.file = file], NameTypeError)
  ELSE IF ~endsWith(toLowerCase(Val(file).name), S_pdf)
    THEN [PostIdle EXCEPT !.phase = "responded", !.file = file,
                          !.response = Some(Json(400, Some("File must be a PDF"), Undef))]
  ELSE [PostIdle EXCEPT !.phase = "decoding", !.file = file, !.decoderCalled = TRUE]

\* what text.split('\n') raises when the decoder's result has no string text
EngineTypeError ==
  [isError |-> TRUE, message |-> "Cannot read properties of undefined (reading 'split')"]

\* POST from the decoder's outcome on (route.ts 182-192).  The outcome is
\* [kind |-> "throw", error |-> e] when getText() rejects with e,
\* [kind |-> "text", text |-> lines] when it resolves with that text, and
\* [kind |-> "notext"] when it resolves without a string text.
PostResume(p, outcome) ==
  IF outcome.kind = "throw" THEN PostCatch(p, outcome.error)
  ELSE IF outcome.kind = "notext"
    THEN PostCatch([p EXCEPT !.engineCalled = TRUE], EngineTypeError)
  ELSE [p EXCEPT !.phase = "responded",
                 !.engineCalled = TRUE,
                 !.text = Some(outcome.text),
                 !.response = Some(Json(200, Undef, Some(parseTextToTrades(outcome.text))))]

\* --------------------------------- trade-wise-dashboard.tsx: the numbers
\* x + y, -x, x * y and x / 100 on decimals (the component computes on
\* doubles; a decimal here is the exact value)
NumAdd(x, y) ==
  IF x.nan \/ y.nan THEN NaN
  ELSE IF x.e >= y.e THEN Num(x.m + y.m * Pow10(x.e - y.e), x.e)
  ELSE Num(x.m * Pow10(y.e - x.e) + y.m, y.e)

NumNeg(x) == IF x.nan THEN NaN ELSE Num(0 - x.m, x.e)

NumSub(x, y) == NumAdd(x, NumNeg(y))

NumMul(x, y) == IF x.nan \/ y.nan THEN NaN ELSE Num(x.m * y.m, x.e + y.e)

NumPercent(x) == IF x.nan THEN NaN ELSE Num(x.m, x.e + 2)

\* parseInt(str, 10): leading white space, an optional sign, the longest
\* prefix of digits; NaN when there is none
ParseIntUnsigned(s, neg) ==
  IF PrefixIn(s, Digits) = 0 THEN NaN
  ELSE Num((IF neg THEN -1 ELSE 1) * DigitsToInt(SubSeq(s, 1, PrefixIn(s, Digits))), 0)

ParseIntSigned(s0) ==
  IF s0 # <<>> /\ s0[1] \in {"-", "+"}
    THEN ParseIntUnsigned(Tail(s0), s0[1] = "-")
    ELSE ParseIntUnsigned(s0, FALSE)

parseInt(str) == ParseIntSigned(SubSeq(str, PrefixIn(str, WhiteSpace) + 1, Len(str)))

\* ------------------------------ trade-wise-dashboard.tsx: the component
DEFAULT_INITIAL_PORTFOLIO == Int2Num(1000)

DEFAULT_SESSION_GOAL == Int2Num(10)

DEFAULT_PROFIT_GOAL == Int2Num(100)

DEFAULT_PROFIT_GOAL_TYPE == "dollar"

DEFAULT_TARGET_WIN_RATE == Int2Num(70)

\* tradeSchema: what the form resolver lets through to handleAddTrade
tradeSchema(values) ==
  /\ Len(values.stock) >= 1
  /\ NumGt(values.amount, 0)
  /\ ~NumLt(values.returnPercentage, 0) /\ ~values.returnPercentage.nan
  /\ values.tradeType \in {"call", "put"}

\* The useState values of the component after its first render.  resetFrom
\* is not a value of the component: it records, in the state a session reset
\* leaves, which values the reset found changed (Undef otherwise).
Mounted ==
  [trades |-> <<>>,
   initialPortfolio |-> DEFAULT_INITIAL_PORTFOLIO,
   isEditingInitialPortfolio |-> FALSE,
   editingInitialPortfolioValue |-> NumToString(DEFAULT_INITIAL_PORTFOLIO),
   sessionGoal |-> DEFAULT_SESSION_GOAL,
   isEditingSessionGoal |-> FALSE,
   editingSessionGoalValue |-> NumToString(DEFAULT_SESSION_GOAL),
   profitGoal |-> DEFAULT_PROFIT_GOAL,
   profitGoalType |-> DEFAULT_PROFIT_GOAL_TYPE,
   isEditingProfitGoal |-> FALSE,
   editingProfitGoalValue |-> NumToString(DEFAULT_PROFIT_GOAL),
   editingProfitGoalType |-> DEFAULT_PROFIT_GOAL_TYPE,
   targetWinRate |-> DEFAULT_TARGET_WIN_RATE,
   isEditingTargetWinRate |-> FALSE,
   editingTargetWinRateValue |-> NumToString(DEFAULT_TARGET_WIN_RATE),
   riskLevel |-> "high",
   suggestion |-> Undef,
   isSuggesting |-> FALSE,
   sessionStocks |-> <<>>,
   newStockInput |-> <<>>,
   resetFrom |-> Undef]

\* the values of the component a session reset is to restore
SessionValues ==
  {"trades", "initialPortfolio", "isEditingInitialPortfolio", "sessionGoal",
   "isEditingSessionGoal", "profitGoal", "profitGoalType", "isEditingProfitGoal",
   "targetWinRate", "isEditingTargetWinRate", "riskLevel", "suggestion",
   "sessionStocks"}

\* portfolioValue (useMemo)
portfolioValue(d) ==
  IF Len(d.trades) = 0 THEN d.initialPortfolio
  ELSE d.trades[Len(d.trades)].portfolioAfter

\* wins, losses and totalProfit (useMemo)
wins(d) == Cardinality({i \in DOMAIN d.trades : d.trades[i].outcome = "win"})

losses(d) == Len(d.trades) - wins(d)

RECURSIVE SumProfit(_, _)
SumProfit(ts, i) ==
  IF i > Len(ts) THEN Int2Num(0) ELSE NumAdd(ts[i].profit, SumProfit(ts, i + 1))

totalProfit(d) == SumProfit(d.trades, 1)

\* tradeHistoryForAI (useMemo): the trades without id, profit and
\* portfolioAfter, the latest first
tradeHistoryForAI(d) ==
  [i \in 1..Len(d.trades) |->
     [stock |-> d.trades[Len(d.trades) + 1 - i].stock,
      amount |-> d.trades[Len(d.trades) + 1 - i].amount,
      returnPercentage |-> d.trades[Len(d.trades) + 1 - i].returnPercentage,
      outcome |-> d.trades[Len(d.trades) + 1 - i].outcome,
      tradeType |-> d.trades[Len(d.trades) + 1 - i].tradeType]]

\* handleGetSuggestion: the trade list and the portfolio value of its input
\* object, taken from the render the handler was created in
SuggestionInput(d) ==
  [tradeHistory |-> tradeHistoryForAI(d), currentPortfolioValue |-> portfolioValue(d)]

\* suggestTradeAmount: an output of the flow, with the input it answers
suggestTradeAmount(input) ==
  [suggestedTradeAmount |-> Int2Num(25), bankruptcyRisk |-> Int2Num(5),
   reasoning |-> "a quarter of the last stake", input |-> input]

\* handleAddTrade: the trade it appends
NewTrade(d, values, outcome, profit) ==
  [id |-> Len(d.trades) + 1,
   stock |-> toUpperCase(values.stock),
   amount |-> values.amount,
   returnPercentage |-> values.returnPercentage,
   outcome |-> outcome,
   profit |-> IF outcome = "win" THEN profit ELSE NumNeg(values.amount),
   portfolioAfter |-> IF outcome = "win" THEN NumAdd(portfolioValue(d), profit)
                      ELSE NumSub(portfolioValue(d), values.amount),
   tradeType |-> values.tradeType]

handleAddTrade(d, values, outcome) ==
  [d EXCEPT !.trades = Append(@, NewTrade(d, values, outcome,
                                          NumMul(values.amount,
                                                 NumPercent(values.returnPercentage)))),
            !.suggestion = Undef,
            !.resetFrom = Undef]

\* handleSaveInitialPortfolio without its test of the trade list
SaveInitialPortfolioAnyTime(d, newInitial) ==
  IF ~newInitial.nan /\ NumGt(newInitial, 0)
    THEN [d EXCEPT !.initialPortfolio = newInitial,
                   !.isEditingInitialPortfolio = FALSE,
                   !.resetFrom = Undef]
  ELSE [d EXCEPT !.resetFrom = Undef]

\* handleSaveInitialPortfolio; the toasts change nothing of the component
SaveInitialPortfolio(d, newInitial) ==
  IF ~newInitial.nan /\ NumGt(newInitial, 0) /\ Len(d.trades) = 0
    THEN [d EXCEPT !.initialPortfolio = newInitial,
                   !.isEditingInitialPortfolio = FALSE,
                   !.resetFrom = Undef]
  ELSE [d EXCEPT !.resetFrom = Undef]

handleSaveInitialPortfolio(d) ==
  SaveInitialPortfolio(d, parseFloat(d.editingInitialPortfolioValue))

SaveSessionGoal(d, newGoal) ==
  IF ~newGoal.nan /\ NumGt(newGoal, 0)
    THEN [d EXCEPT !.sessionGoal = newGoal,
                   !.isEditingSessionGoal = FALSE,
                   !.resetFrom = Undef]
  ELSE [d EXCEPT !.resetFrom = Undef]

handleSaveSessionGoal(d) == SaveSessionGoal(d, parseInt(d.editingSessionGoalValue))

SaveProfitGoal(d, newGoal) ==
  IF ~newGoal.nan /\ NumGt(newGoal, 0)
    THEN [d EXCEPT !.profitGoal = newGoal,
                   !.profitGoalType = d.editingProfitGoalType,
                   !.isEditingProfitGoal = FALSE,
                   !.resetFrom = Undef]
  ELSE [d EXCEPT !.resetFrom = Undef]

handleSaveProfitGoal(d) == SaveProfitGoal(d, parseFloat(d.editingProfitGoalValue))

SaveTargetWinRate(d, newRate) ==
  IF ~newRate.nan /\ NumGt(newRate, 0) /\ ~NumGt(newRate, 100)
    THEN [d EXCEPT !.targetWinRate = newRate,
                   !.isEditingTargetWinRate = FALSE,
                   !.resetFrom = Undef]
  ELSE [d EXCEPT !.resetFrom = Undef]

handleSaveTargetWinRate(d) ==
  SaveTargetWinRate(d, parseFloat(d.editingTargetWinRateValue))

\* handleReset that leaves the settings as they are
ResetTradesOnly(d) ==
  [d EXCEPT !.trades = <<>>,
            !.sessionStocks = <<>>,
            !.newStockInput = <<>>,
            !.suggestion = Undef,
            !.resetFrom = Some({f \in SessionValues : d[f] # Mounted[f]})]

\* handleReset: every setter it calls; isSuggesting is not among them
handleReset(d) ==
  [d EXCEPT !.trades = <<>>,
            !.sessionStocks = <<>>,
            !.newStockInput = <<>>,
            !.initialPortfolio = DEFAULT_INITIAL_PORTFOLIO,
            !.editingInitialPortfolioValue = NumToString(DEFAULT_INITIAL_PORTFOLIO),
            !.isEditingInitialPortfolio = FALSE,
            !.sessionGoal = DEFAULT_SESSION_GOAL,
            !.editingSessionGoalValue = NumToString(DEFAULT_SESSION_GOAL),
            !.isEditingSessionGoal = FALSE,
            !.profitGoal = DEFAULT_PROFIT_GOAL,
            !.profitGoalType = DEFAULT_PROFIT_GOAL_TYPE,
            !.editingProfitGoalValue = NumToString(DEFAULT_PROFIT_GOAL),
            !.editingProfitGoalType = DEFAULT_PROFIT_GOAL_TYPE,
            !.isEditingProfitGoal = FALSE,
            !.targetWinRate = DEFAULT_TARGET_WIN_RATE,
            !.editingTargetWinRateValue = NumToString(DEFAULT_TARGET_WIN_RATE),
            !.isEditingTargetWinRate = FALSE,
            !.suggestion = Undef,
            !.riskLevel = "high",
            !.resetFrom = Some({f \in SessionValues : d[f] # Mounted[f]})]

\* handleGetSuggestion up to its await, and its two continuations
SuggestionRequested(d) ==
  [d EXCEPT !.isSuggesting = TRUE, !.suggestion = Undef, !.resetFrom = Undef]

SuggestionResolved(d, result) ==
  [d EXCEPT !.suggestion = Some(result), !.isSuggesting = FALSE, !.resetFrom = Undef]

SuggestionRejected(d) == [d EXCEPT !.isSuggesting = FALSE, !.resetFrom = Undef]

\* handleAddStock
AddStock(d, stockToAdd) ==
  IF stockToAdd # <<>> /\ \A i \in DOMAIN d.sessionStocks : d.sessionStocks[i] # stockToAdd
    THEN [d EXCEPT !.sessionStocks = Append(@, stockToAdd),
                   !.newStockInput = <<>>,
                   !.resetFrom = Undef]
  ELSE [d EXCEPT !.resetFrom = Undef]

handleAddStock(d) == AddStock(d, toUpperCase(trim(d.newStockInput)))

handleRemoveStock(d, stockToRemove) ==
  [d EXCEPT !.sessionStocks = SelectSeq(@, LAMBDA s : s # stockToRemove),
            !.resetFrom = Undef]

\* --------------------------------- parseDelimitedLine, token by token
\* A call of parseDelimitedLine on its own: phase is "idle", "loop" or
\* "returned"; values are the tokens the loop has consumed, trade is the
\* record it has built of them, result is what the call returned (Undef for
\* null).
ClassifierIdle ==
  [phase |-> "idle", values |-> <<>>, trade |-> EmptyTrade, result |-> Undef]

\* const trade = {}
ClassifierEntered == [ClassifierIdle EXCEPT !.phase = "loop"]

\* one iteration of the loop, over the token tok
ClassifierConsumed(c, tok) ==
  [c EXCEPT !.values = Append(@, tok),
            !.trade = ClassifyToken(c.trade, tok, toLowerCase(tok))]

\* the defaults and the return
ClassifierReturned(c) ==
  [c EXCEPT !.phase = "returned",
            !.trade = DelimitedDefaults(c.trade),
            !.result = CompleteOrNull(DelimitedDefaults(c.trade))]

\* -------------------------------- parseCSVLine, character by character
\* A call of parseCSVLine on its own: phase is "idle", "loop" or
\* "returned"; i is the position in line of the next character, current and
\* inQuotes are the locals of the function, result is its array.
ScannerIdle ==
  [phase |-> "idle", line |-> <<>>, i |-> 1, current |-> <<>>, inQuotes |-> FALSE,
   result |-> <<>>]

\* const result = []; let current = ''; let inQuotes = false
ScannerEntered(line) == [ScannerIdle EXCEPT !.phase = "loop", !.line = line]

\* one iteration with the quote character kept in the field
ScannedKeepingQuotes(sc, char) ==
  IF char = "\"" THEN [sc EXCEPT !.inQuotes = ~@, !.current = Append(@, char), !.i = @ + 1]
  ELSE IF char = "," /\ ~sc.inQuotes
    THEN [sc EXCEPT !.result = Append(@, trim(sc.current)), !.current = <<>>,
                    !.i = @ + 1]
  ELSE [sc EXCEPT !.current = Append(@, char), !.i = @ + 1]

\* one iteration of the loop (part_000 91-102) on char = line[i]
Scanned(sc, char) ==
  IF char = "\"" THEN [sc EXCEPT !.inQuotes = ~@, !.i = @ + 1]
  ELSE IF char = "," /\ ~sc.inQuotes
    THEN [sc EXCEPT !.result = Append(@, trim(sc.current)), !.current = <<>>,
                    !.i = @ + 1]
  ELSE [sc EXCEPT !.current = Append(@, char), !.i = @ + 1]

\* result.push(current.trim()); return result
ScannerReturned(sc) ==
  [sc EXCEPT !.phase = "returned", !.result = Append(@, trim(sc.current))]

VARIABLES
  driver,         \* the driver running or last run: "none", "text", "csv", "excel"
  pc,             \* "idle", "run" (inside the driver's loop), "done" (returned)
  input,          \* the raw lines of the text read so far (text, csv)
  workbook,       \* the sheets of the workbook read so far, each a sequence of rows
  currentTrade,   \* parseTextToTrades: the key-value accumulator
  header,         \* parseCsvTrades: Undef, or the parsed header line
  columnIndices,  \* parseCsvTrades: the column mapping
  trades,         \* the output array of the running call
  origin,         \* for each record of trades, where it was pushed
  recalled,       \* whether a call had finished before the running one began
  post,           \* route.ts POST: the request being served and its response
  dashboard,      \* trade-wise-dashboard.tsx: the state of the component
  classifier,     \* parseDelimitedLine: a call of it on its own, token by token
  scanner,        \* parseCSVLine: a call of it on its own, character by character
  awaited         \* handleGetSuggestion: the input of the call it awaits, if any

vars ==
  <<driver, pc, input, workbook, currentTrade, header, columnIndices, trades, origin,
    recalled, post, dashboard, classifier, scanner, awaited>>

\* what the three drivers leave alone
outside == <<post, dashboard, classifier, scanner, awaited>>

\* the three drivers
drivers ==
  <<driver, pc, input, workbook, currentTrade, header, columnIndices, trades, origin,
    recalled>>

NoColumns == [f \in TradeFields |-> Undef]

Init ==
  /\ driver = "none"
  /\ pc = "idle"
  /\ input = <<>>
  /\ workbook = <<>>
  /\ currentTrade = Undef
  /\ header = Undef
  /\ columnIndices = NoColumns
  /\ trades = <<>>
  /\ origin = <<>>
  /\ recalled = FALSE
  /\ post = PostIdle
  /\ dashboard = Mounted
  /\ classifier = ClassifierIdle
  /\ scanner = ScannerIdle
  /\ awaited = Undef

RunState == [currentTrade |-> currentTrade, trades |-> trades, origin |-> origin]

\* the locals of the running call become those of st
SetRun(st) ==
  /\ currentTrade' = st.currentTrade
  /\ trades' = st.trades
  /\ origin' = st.origin

\* the accumulator of the previous call, had it been kept across calls
StaleCurrentTrade == currentTrade

\* let currentTrade = null (route.ts 98)
InitialCurrentTrade == Undef

\* a call of one of the three drivers begins: its locals are created
Call(d) ==
  /\ pc \in {"idle", "done"}
  /\ recalled' = (recalled \/ pc = "done")
  /\ driver' = d
  /\ pc' = "run"
  /\ input' = <<>>
  /\ workbook' = <<>>
  /\ currentTrade' = InitialCurrentTrade
  /\ header' = Undef
  /\ columnIndices' = NoColumns
  /\ trades' = <<>>
  /\ origin' = <<>>
  /\ UNCHANGED outside

CallText == Call("text")

CallCsv == Call("csv")

CallExcel == Call("excel")

\* parseTextToTrades: one raw line; a blank one is filtered out, another one
\* goes through the loop body
TextLineWithin(line, most) ==
  /\ pc = "run"
  /\ driver = "text"
  /\ Len(input) < most
  /\ input' = Append(input, line)
  /\ SetRun(IF trim(line) = <<>> THEN RunState
            ELSE TextLineBody(RunState, line, Len(NonBlank(input)) + 1))
  /\ UNCHANGED <<outside, recalled, driver, pc, workbook, header, columnIndices>>

TextLineStep(line) == TextLineWithin(line, MaxLines)

TextLine == \E line \in TextCorpus : TextLineStep(line)

\* parseTextToTrades: the text has no more lines; the final check, return
TextEnd ==
  /\ pc = "run"
  /\ driver = "text"
  /\ SetRun(TextFinish(RunState, Len(NonBlank(input))))
  /\ pc' = "done"
  /\ UNCHANGED <<outside, recalled, driver, input, workbook, header, columnIndices>>

\* parseCsvTrades: the first non-blank line is the header
CsvHeaderStep(line) ==
  /\ pc = "run"
  /\ driver = "csv"
  /\ ~IsDef(header)
  /\ input' = Append(input, line)
  /\ IF trim(line) = <<>>
       THEN UNCHANGED <<header, columnIndices>>
       ELSE /\ header' = Some(parseCSVLine(line))
            /\ columnIndices' = mapColumnIndices(parseCSVLine(line))
  /\ UNCHANGED <<outside, recalled, driver, pc, workbook, currentTrade, trades, origin>>

CsvHeader == \E line \in CsvHeaderCorpus : CsvHeaderStep(line)

\* parseCsvTrades: one data line
CsvRowWithin(line, most) ==
  /\ pc = "run"
  /\ driver = "csv"
  /\ IsDef(header)
  /\ Len(input) < most + 1
  /\ input' = Append(input, line)
  /\ SetRun(IF trim(line) = <<>> THEN RunState
            ELSE CsvRowBody(RunState, line, Val(header), columnIndices,
                            Len(NonBlank(input)) + 1))
  /\ UNCHANGED <<outside, recalled, driver, pc, workbook, header, columnIndices>>

CsvRowStep(line) == CsvRowWithin(line, MaxRows)

CsvRow == \E line \in CsvRowCorpus : CsvRowStep(line)

\* parseCsvTrades: no more lines; return (an empty text returns [])
CsvEnd ==
  /\ pc = "run"
  /\ driver = "csv"
  /\ pc' = "done"
  /\ UNCHANGED <<outside, recalled, driver, input, workbook, currentTrade, header, columnIndices,
                 trades, origin>>

\* parseExcelTrades: the outer loop moves to the next sheet
ExcelSheet ==
  /\ pc = "run"
  /\ driver = "excel"
  /\ Len(workbook) < Len(SheetNames)
  /\ workbook' = Append(workbook, <<>>)
  /\ UNCHANGED <<outside, recalled, driver, pc, input, currentTrade, header, columnIndices, trades, origin>>

\* parseExcelTrades: one row object of the current sheet
ExcelRowWithin(row, most) ==
  /\ pc = "run"
  /\ driver = "excel"
  /\ Len(workbook) >= 1
  /\ Len(workbook[Len(workbook)]) < most
  /\ workbook' = [workbook EXCEPT ![Len(workbook)] = Append(@, row)]
  /\ SetRun(ExcelRowBody(RunState, row, Len(workbook), Len(workbook[Len(workbook)]) + 1))
  /\ UNCHANGED <<outside, recalled, driver, pc, input, header, columnIndices>>

ExcelRowStep(row) == ExcelRowWithin(row, MaxSheetRows)

ExcelRow == \E row \in ExcelRowCorpus : ExcelRowStep(row)

\* parseExcelTrades: every sheet was visited; return
ExcelEnd ==
  /\ pc = "run"
  /\ driver = "excel"
  /\ Len(workbook) >= 1
  /\ pc' = "done"
  /\ UNCHANGED <<outside, recalled, driver, input, workbook, currentTrade, header, columnIndices,
                 trades, origin>>

Next ==
  \/ CallText
  \/ TextLine
  \/ TextEnd
  \/ CallCsv
  \/ CsvHeader
  \/ CsvRow
  \/ CsvEnd
  \/ CallExcel
  \/ ExcelSheet
  \/ ExcelRow
  \/ ExcelEnd

Spec == Init /\ [][Next]_vars

\* ------------------------------------------------- one cell at a time
\* A second specification: one call of a driver on one data row or one line
\* in which one cell, or one token, is any string over CellAlphabet of at
\* most MaxCellLen characters.
CellAlphabet == {"0", "1", "$", ",", "%", ".", "-"}

MaxCellLen == 3

Cells == UNION {[1..n -> CellAlphabet] : n \in 0..MaxCellLen}

S_TSLA == <<"T","S","L","A">>

\* the CSV line  asset,"amount","profit"  (quoted, so that a ',' of a cell
\* stays in its field)
CsvLineOf(asset, amount, profit) ==
  asset \o <<",", "\"">> \o amount \o <<"\"", ",", "\"">> \o profit \o <<"\"">>

CsvAmountRow(cell) == CsvLineOf(S_TSLA, cell, <<"8","5","%">>)

CsvProfitRow(cell) == CsvLineOf(S_TSLA, <<"2","0","0">>, cell)

\* the row object {Asset: asset, Amount: amount, Profit: profit}
ExcelRowOf(asset, amount, profit) ==
  <<[key |-> <<"A","s","s","e","t">>, value |-> StrCell(asset)],
    [key |-> <<"A","m","o","u","n","t">>, value |-> StrCell(amount)],
    [key |-> <<"P","r","o","f","i","t">>, value |-> StrCell(profit)]>>

ExcelAmountRow(cell) == ExcelRowOf(S_TSLA, cell, <<"8","5","%">>)

ExcelProfitRow(cell) == ExcelRowOf(S_TSLA, <<"2","0","0">>, cell)

\* call | #1 |
PipeLineHead ==
  <<"c","a","l","l"," ","|"," ","#","1"," ","|"," ">>

\*  | AAPL | USD | 85% | 1500 | 2024-01-01 | 2024-01-02 | 12:30 | 13:30
PipeLineRest ==
  <<" ","|"," ","A","A","P","L"," ","|"," ","U","S","D"," ","|"," ",
    "8","5","%"," ","|"," ","1","5","0","0"," ","|"," ","2","0","2",
    "4","-","0","1","-","0","1"," ","|"," ","2","0","2","4","-","0",
    "1","-","0","2"," ","|"," ","1","2",":","3","0"," ","|"," ","1",
    "3",":","3","0">>

\* a pipe-delimited line of ten tokens and, as its third, the token tok
PipeLineWith(tok) == PipeLineHead \o tok \o PipeLineRest

CellsCallText == pc = "idle" /\ CallText

CellsTextLine == input = <<>> /\ \E tok \in Cells : TextLineStep(PipeLineWith(tok))

CellsCallCsv == pc = "idle" /\ CallCsv

CellsCsvHeader == CsvHeaderStep(H_basic)

CellsCsvAmountRow == Len(input) = 1 /\ \E cell \in Cells : CsvRowStep(CsvAmountRow(cell))

CellsCsvProfitRow == Len(input) = 1 /\ \E cell \in Cells : CsvRowStep(CsvProfitRow(cell))

CellsCallExcel == pc = "idle" /\ CallExcel

CellsExcelSheet == workbook = <<>> /\ ExcelSheet

CellsExcelAmountRow ==
  workbook = <<<<>>>> /\ \E cell \in Cells : ExcelRowStep(ExcelAmountRow(cell))

CellsExcelProfitRow ==
  workbook = <<<<>>>> /\ \E cell \in Cells : ExcelRowStep(ExcelProfitRow(cell))

NextCells ==
  \/ CellsCallText
  \/ CellsTextLine
  \/ TextEnd
  \/ CellsCallCsv
  \/ CellsCsvHeader
  \/ CellsCsvAmountRow
  \/ CellsCsvProfitRow
  \/ CsvEnd
  \/ CellsCallExcel
  \/ CellsExcelSheet
  \/ CellsExcelAmountRow
  \/ CellsExcelProfitRow
  \/ ExcelEnd

SpecCells == Init /\ [][NextCells]_vars

\* ------------------------------------------------- key-value runs
\* A third specification: one call of the free-text driver on a text of at
\* most MaxRunLines lines of KeyValueCorpus.

\* Call/Put: buy, #7, AAPL, USD, 1500, 85%, 2024-01-01, 12:30
K_direction ==
  <<"C","a","l","l","/","P","u","t",":"," ","b","u","y",","," ","#","7",","," ",
    "A","A","P","L",","," ","U","S","D",","," ","1","5","0","0",","," ","8","5",
    "%",","," ","2","0","2","4","-","0","1","-","0","1",","," ","1","2",":","3",
    "0">>

\* Asset: tsla
K_asset == <<"A","s","s","e","t",":"," ","t","s","l","a">>

\* Profit: 0
K_profit == <<"P","r","o","f","i","t",":"," ","0">>

\* Currency: usd
K_currency == <<"C","u","r","r","e","n","c","y",":"," ","u","s","d">>

\* call | #1 | 120 | AAPL | USD | 85% | 1500 | 2024-01-01 | 2024-01-02 | 12:30 | 13:30
P_time == PipeLineWith(<<"1","2","0">>)

\* settled
L_note == <<"s","e","t","t","l","e","d">>

KeyValueCorpus == {K_direction, K_asset, T_amount, K_profit, K_currency, P_time, L_note}

MaxRunLines == 5

RunsCallText == pc = "idle" /\ CallText

RunsTextLine == \E line \in KeyValueCorpus : TextLineWithin(line, MaxRunLines)

NextRuns ==
  \/ RunsCallText
  \/ RunsTextLine
  \/ TextEnd

SpecRuns == Init /\ [][NextRuns]_vars

\* ------------------------------------------------ the tabular inputs
\* CSV texts of a header of TableHeaderCorpus (several aliases of one field,
\* cells to trim and lower-case, no alias of a required field) and at most
\* MaxTableRows rows of TableRowCorpus (cells empty under a bound column
\* and filled under another alias of the field).
\* Symbol,Asset,Amount,Profit,P/L
H_aliases ==
  <<"S","y","m","b","o","l",",","A","s","s","e","t",",","A","m","o","u","n",
    "t",",","P","r","o","f","i","t",",","P","/","L">>

\*  TICKER , stake ,Return,Side
H_spaced ==
  <<" ","T","I","C","K","E","R"," ",","," ","s","t","a","k","e"," ",",","R",
    "e","t","u","r","n",",","S","i","d","e">>

\* Name,Amount,Profit
H_unmapped ==
  <<"N","a","m","e",",","A","m","o","u","n","t",",","P","r","o","f","i","t">>

\* tsla,aapl,200,15%,20%
R_both ==
  <<"t","s","l","a",",","a","a","p","l",",","2","0","0",",","1","5","%",",",
    "2","0","%">>

\* tsla,aapl,200,,20%
R_emptyProfit ==
  <<"t","s","l","a",",","a","a","p","l",",","2","0","0",",",",","2","0","%">>

\* tsla,,200,15%,20%
R_emptyAsset ==
  <<"t","s","l","a",",",",","2","0","0",",","1","5","%",",","2","0","%">>

\* msft,300,,sell
R_four ==
  <<"m","s","f","t",",","3","0","0",",",",","s","e","l","l">>

\* ,,,,
R_blanks ==
  <<",",",",",",",">>

\* msft,300,5,
R_noside ==
  <<"m","s","f","t",",","3","0","0",",","5",",">>

TableHeaderCorpus == {H_aliases, H_spaced, H_unmapped}

TableRowCorpus == {R_both, R_emptyProfit, R_emptyAsset, R_four, R_noside, R_blanks}

\* row objects of a sheet: two keys that differ in letter case only, the
\* first with an empty cell; several aliases of a field, the cells of the
\* first ones empty; every alias of a field with an empty cell
\* {Asset: "", ASSET: "tsla", Amount: "200", Profit: "15"}
X_case ==
  <<[key |-> <<"A","s","s","e","t">>, value |-> StrCell(<<>>)],
    [key |-> <<"A","S","S","E","T">>, value |-> StrCell(<<"t","s","l","a">>)],
    [key |-> <<"A","m","o","u","n","t">>, value |-> StrCell(<<"2","0","0">>)],
    [key |-> <<"P","r","o","f","i","t">>, value |-> StrCell(<<"1","5">>)]>>

\* {Symbol: "aapl", Asset: "", Amount: null, Stake: "300", Profit: "", "P/L": 5}
X_aliases ==
  <<[key |-> <<"S","y","m","b","o","l">>, value |-> StrCell(<<"a","a","p","l">>)],
    [key |-> <<"A","s","s","e","t">>, value |-> StrCell(<<>>)],
    [key |-> <<"A","m","o","u","n","t">>, value |-> NullCell],
    [key |-> <<"S","t","a","k","e">>, value |-> StrCell(<<"3","0","0">>)],
    [key |-> <<"P","r","o","f","i","t">>, value |-> StrCell(<<>>)],
    [key |-> <<"P","/","L">>, value |-> NumCell(Int2Num(5))]>>

\* {Asset: "msft", Amount: "100", Profit: "", Payout: null}
X_empty ==
  <<[key |-> <<"A","s","s","e","t">>, value |-> StrCell(<<"m","s","f","t">>)],
    [key |-> <<"A","m","o","u","n","t">>, value |-> StrCell(<<"1","0","0">>)],
    [key |-> <<"P","r","o","f","i","t">>, value |-> StrCell(<<>>)],
    [key |-> <<"P","a","y","o","u","t">>, value |-> NullCell]>>

TableSheetCorpus == {X_case, X_aliases, X_empty, X_noprofit, X_long}

MaxTableRows == 2

TablesCallCsv == pc = "idle" /\ CallCsv

TablesCsvHeader == \E line \in TableHeaderCorpus : CsvHeaderStep(line)

TablesCsvRow == \E line \in TableRowCorpus : CsvRowWithin(line, MaxTableRows)

TablesCsvEnd == CsvEnd

TablesCallExcel == pc = "idle" /\ CallExcel

TablesExcelSheet == ExcelSheet

TablesExcelRow == \E row \in TableSheetCorpus : ExcelRowWithin(row, MaxTableRows)

TablesExcelEnd == ExcelEnd

NextTables ==
  \/ TablesCallCsv
  \/ TablesCsvHeader
  \/ TablesCsvRow
  \/ TablesCsvEnd
  \/ TablesCallExcel
  \/ TablesExcelSheet
  \/ TablesExcelRow
  \/ TablesExcelEnd

SpecTables == Init /\ [][NextTables]_vars

\* --------------------------------------------- values that do not parse
\* Free text of at most MaxUnparsedLines lines of UnparsedCorpus: key-value
\* lines of a record, the profit and the close price with values that are
\* not numbers.
\* Call/Put: put
U_put ==
  <<"C","a","l","l","/","P","u","t",":"," ","p","u","t">>

\* Profit: n/a
U_profit ==
  <<"P","r","o","f","i","t",":"," ","n","/","a">>

\* Close Price: -
U_close ==
  <<"C","l","o","s","e"," ","P","r","i","c","e",":"," ","-">>

UnparsedCorpus == {K_asset, T_amount, U_put, U_profit, U_close}

MaxUnparsedLines == 5

UnparsedCallText == pc = "idle" /\ CallText

UnparsedTextLine == \E line \in UnparsedCorpus : TextLineWithin(line, MaxUnparsedLines)

UnparsedTextEnd == TextEnd

NextUnparsed ==
  \/ UnparsedCallText
  \/ UnparsedTextLine
  \/ UnparsedTextEnd

SpecUnparsed == Init /\ [][NextUnparsed]_vars

\* ------------------------------------------------ the key-value keys
\* Free text of at most MaxKeyLines lines of KeyCorpus: key-value lines whose
\* keys contain the synonyms of one field, of several fields, or of none.
\* Profit Amount: 85
Q_profitAmount ==
  <<"P","r","o","f","i","t"," ","A","m","o","u","n","t",":"," ","8","5">>

\* Order Asset: 7
Q_orderAsset ==
  <<"O","r","d","e","r"," ","A","s","s","e","t",":"," ","7">>

\* Symbol put: tsla
Q_symbolPut ==
  <<"S","y","m","b","o","l"," ","p","u","t",":"," ","t","s","l","a">>

\* Put Payout: call
Q_putPayout ==
  <<"P","u","t"," ","P","a","y","o","u","t",":"," ","c","a","l","l">>

\* P/L: 5
Q_pl ==
  <<"P","/","L",":"," ","5">>

\* Open Price Time: 1.5
Q_openPriceTime ==
  <<"O","p","e","n"," ","P","r","i","c","e"," ","T","i","m","e",":"," ","1",
    ".","5">>

\* CLOSE PRICE / close time: 2
Q_closePrice ==
  <<"C","L","O","S","E"," ","P","R","I","C","E"," ","/"," ","c","l","o","s",
    "e"," ","t","i","m","e",":"," ","2">>

\* Open Time: 12:30
Q_openTime ==
  <<"O","p","e","n"," ","T","i","m","e",":"," ","1","2",":","3","0">>

\* Close Time Expiry: 13:30
Q_closeTimeExpiry ==
  <<"C","l","o","s","e"," ","T","i","m","e"," ","E","x","p","i","r","y",":",
    " ","1","3",":","3","0">>

\* Expires (currency): 14:30
Q_expires ==
  <<"E","x","p","i","r","e","s"," ","(","c","u","r","r","e","n","c","y",")",
    ":"," ","1","4",":","3","0">>

\* Currency: eur
Q_currency ==
  <<"C","u","r","r","e","n","c","y",":"," ","e","u","r">>

\* Open: 5
Q_open ==
  <<"O","p","e","n",":"," ","5">>

KeyCorpus ==
  {Q_profitAmount, Q_orderAsset, Q_symbolPut, Q_putPayout,
   Q_pl, Q_openPriceTime, Q_closePrice, Q_openTime,
   Q_closeTimeExpiry, Q_expires, Q_currency, Q_open}

MaxKeyLines == 4

KeysCallText == pc = "idle" /\ CallText

KeysTextLine == \E line \in KeyCorpus : TextLineWithin(line, MaxKeyLines)

KeysTextEnd == TextEnd

NextKeys ==
  \/ KeysCallText
  \/ KeysTextLine
  \/ KeysTextEnd

SpecKeys == Init /\ [][NextKeys]_vars

\* ------------------------------------------------- the upload endpoint
\* A fourth specification: requests to POST, one at a time.  The form data
\* has no 'file' entry, a text field, or a File of one of FileNames; the
\* decoder rejects, resolves without a text, or resolves with a text of at
\* most MaxPostLines lines of TextCorpus.
N_pdf == <<"a",".","p","d","f">>

N_PDF == <<"A",".","P","D","F">>

N_txt == <<"a",".","p","d","f",".","t","x","t">>

N_nodot == <<"p","d","f">>

FileNames == {N_pdf, N_PDF, N_txt, N_nodot, S_pdf, <<>>}

FormEntries ==
  {Undef, Some(StringEntry(<<>>)), Some(StringEntry(N_pdf))}
    \cup {Some(FileEntry(n)) : n \in FileNames}

MaxPostLines == 2

PostTexts == UNION {[1..n -> TextCorpus] : n \in 0..MaxPostLines}

DecoderOutcomes ==
  {[kind |-> "throw", error |-> [isError |-> TRUE, message |-> "Invalid PDF structure"]],
   [kind |-> "throw", error |-> [isError |-> FALSE, message |-> "aborted"]],
   [kind |-> "notext"]}
    \cup {[kind |-> "text", text |-> t] : t \in PostTexts}

\* POST is called and runs to its first await or to its response
PostRequest(file) ==
  /\ post.phase \in {"idle", "responded"}
  /\ post' = PostBegin(file)
  /\ UNCHANGED <<drivers, dashboard, classifier, scanner, awaited>>

PostCall == \E file \in FormEntries : PostRequest(file)

\* the decoder settles and POST runs to its response
PostDecoded(outcome) ==
  /\ post.phase = "decoding"
  /\ post' = PostResume(post, outcome)
  /\ UNCHANGED <<drivers, dashboard, classifier, scanner, awaited>>

PostDecode == \E outcome \in DecoderOutcomes : PostDecoded(outcome)

NextPost ==
  \/ PostCall
  \/ PostDecode

SpecPost == Init /\ [][NextPost]_vars

\* ------------------------------------------------- the token classifier
\* A specification of parseDelimitedLine alone: calls of it on lines of at
\* most MaxTokens tokens of TokenCorpus.
TokenCorpus ==
  {S_call, <<"P","U","T">>, <<"#","7">>, <<"#","8">>, <<"A","A","P","L">>, S_TSLA,
   S_USD, <<"e","u","r">>, <<"0","%">>, <<"8","5","%">>, <<"1","5","0","0">>,
   <<"2","0","0","0">>, <<"1","2","0",".","5","0">>, <<"1","1","9">>, <<"7">>,
   <<"2","0","2","4","-","0","1","-","0","1">>, <<"1","2",":","3","0">>,
   <<"1","3",":","3","0">>, <<"1","4",":","3","0">>, <<"n","/","a">>,
   <<"$","1","0","0","0">>, <<"$","5">>, <<"0",".","5">>, <<"$","0">>}

MaxTokens == 3

ClassifierCall ==
  /\ classifier.phase \in {"idle", "returned"}
  /\ classifier' = ClassifierEntered
  /\ UNCHANGED <<drivers, post, dashboard, scanner, awaited>>

ClassifierWithin(tok, most) ==
  /\ classifier.phase = "loop"
  /\ Len(classifier.values) < most
  /\ classifier' = ClassifierConsumed(classifier, tok)
  /\ UNCHANGED <<drivers, post, dashboard, scanner, awaited>>

ClassifierStep(tok) == ClassifierWithin(tok, MaxTokens)

ClassifierToken == \E tok \in TokenCorpus : ClassifierStep(tok)

ClassifierReturn ==
  /\ classifier.phase = "loop"
  /\ classifier' = ClassifierReturned(classifier)
  /\ UNCHANGED <<drivers, post, dashboard, scanner, awaited>>

NextTokens ==
  \/ ClassifierCall
  \/ ClassifierToken
  \/ ClassifierReturn

SpecTokens == Init /\ [][NextTokens]_vars

\* ------------------------------------------------------- the scanner
\* Calls of parseCSVLine on every line of at most MaxScanLen characters of
\* ScanAlphabet.
ScanAlphabet == {"a", ",", "\"", " "}

MaxScanLen == 4

ScanLines == UNION {[1..n -> ScanAlphabet] : n \in 0..MaxScanLen}

ScannerCall ==
  /\ scanner.phase \in {"idle", "returned"}
  /\ \E line \in ScanLines : scanner' = ScannerEntered(line)
  /\ UNCHANGED <<drivers, post, dashboard, classifier, awaited>>

ScannerChar ==
  /\ scanner.phase = "loop"
  /\ scanner.i <= Len(scanner.line)
  /\ scanner' = Scanned(scanner, scanner.line[scanner.i])
  /\ UNCHANGED <<drivers, post, dashboard, classifier, awaited>>

ScannerReturn ==
  /\ scanner.phase = "loop"
  /\ scanner.i > Len(scanner.line)
  /\ scanner' = ScannerReturned(scanner)
  /\ UNCHANGED <<drivers, post, dashboard, classifier, awaited>>

NextScan ==
  \/ ScannerCall
  \/ ScannerChar
  \/ ScannerReturn

SpecScan == Init /\ [][NextScan]_vars

\* --------------------------------------------- the classifier on dates
\* Calls of parseDelimitedLine on lines of at most MaxDateTokens tokens of
\* DateCorpus: four tokens the date rule takes (one of them with text
\* around the time), and two it does not.
D_date == <<"2","0","2","4","-","0","1","-","0","1">>

D_open == <<"1","2",":","3","0">>

D_close == <<"a","t"," ","1","3",":","3","0">>

D_expiry == <<"1","/","2","3">>

D_short == <<"2","0","2","4","-","1","-","1">>

DateCorpus == {D_date, D_open, D_close, D_expiry, D_short, S_TSLA}

MaxDateTokens == 4

DatesCall == ClassifierCall

DatesToken == \E tok \in DateCorpus : ClassifierWithin(tok, MaxDateTokens)

DatesReturn == ClassifierReturn

NextDates ==
  \/ DatesCall
  \/ DatesToken
  \/ DatesReturn

SpecDates == Init /\ [][NextDates]_vars

\* ------------------------------------------------- the dashboard
\* The events of the component.  Each handler runs as one step on the values
\* of the last render; a transition it starts is committed with it.
DashboardStep(d) ==
  /\ dashboard' = d
  /\ UNCHANGED <<drivers, post, classifier, scanner, awaited>>

\* the Win and the Loss button: form.handleSubmit passes on the values that
\* satisfy tradeSchema; at most `most` trades are logged
LogTrade(values, outcome, most) ==
  /\ Len(dashboard.trades) < most
  /\ tradeSchema(values)
  /\ DashboardStep(handleAddTrade(dashboard, values, outcome))

\* the pencil beside the initial portfolio, disabled once a trade is logged
EditInitialPortfolio ==
  /\ ~dashboard.isEditingInitialPortfolio
  /\ Len(dashboard.trades) = 0
  /\ DashboardStep([dashboard EXCEPT !.isEditingInitialPortfolio = TRUE,
                                     !.resetFrom = Undef])

\* onChange of the input, shown in edit mode
TypeInitialPortfolio(text) ==
  /\ dashboard.isEditingInitialPortfolio
  /\ DashboardStep([dashboard EXCEPT !.editingInitialPortfolioValue = text,
                                     !.resetFrom = Undef])

\* Enter in the input (the check button is disabled once a trade is logged,
\* the key is not)
SaveInitialPortfolioKey ==
  /\ dashboard.isEditingInitialPortfolio
  /\ DashboardStep(handleSaveInitialPortfolio(dashboard))

CancelInitialPortfolio ==
  /\ dashboard.isEditingInitialPortfolio
  /\ DashboardStep([dashboard EXCEPT
       !.isEditingInitialPortfolio = FALSE,
       !.editingInitialPortfolioValue = NumToString(dashboard.initialPortfolio),
       !.resetFrom = Undef])

EditSessionGoal ==
  /\ ~dashboard.isEditingSessionGoal
  /\ DashboardStep([dashboard EXCEPT !.isEditingSessionGoal = TRUE, !.resetFrom = Undef])

TypeSessionGoal(text) ==
  /\ dashboard.isEditingSessionGoal
  /\ DashboardStep([dashboard EXCEPT !.editingSessionGoalValue = text,
                                     !.resetFrom = Undef])

SaveSessionGoalKey ==
  /\ dashboard.isEditingSessionGoal
  /\ DashboardStep(handleSaveSessionGoal(dashboard))

CancelSessionGoal ==
  /\ dashboard.isEditingSessionGoal
  /\ DashboardStep([dashboard EXCEPT
       !.isEditingSessionGoal = FALSE,
       !.editingSessionGoalValue = NumToString(dashboard.sessionGoal),
       !.resetFrom = Undef])

EditProfitGoal ==
  /\ ~dashboard.isEditingProfitGoal
  /\ DashboardStep([dashboard EXCEPT !.isEditingProfitGoal = TRUE, !.resetFrom = Undef])

TypeProfitGoal(text) ==
  /\ dashboard.isEditingProfitGoal
  /\ DashboardStep([dashboard EXCEPT !.editingProfitGoalValue = text,
                                     !.resetFrom = Undef])

\* onValueChange of the Select beside the input
SelectProfitGoalType(v) ==
  /\ dashboard.isEditingProfitGoal
  /\ DashboardStep([dashboard EXCEPT !.editingProfitGoalType = v, !.resetFrom = Undef])

SaveProfitGoalKey ==
  /\ dashboard.isEditingProfitGoal
  /\ DashboardStep(handleSaveProfitGoal(dashboard))

CancelProfitGoal ==
  /\ dashboard.isEditingProfitGoal
  /\ DashboardStep([dashboard EXCEPT
       !.isEditingProfitGoal = FALSE,
       !.editingProfitGoalValue = NumToString(dashboard.profitGoal),
       !.editingProfitGoalType = dashboard.profitGoalType,
       !.resetFrom = Undef])

EditTargetWinRate ==
  /\ ~dashboard.isEditingTargetWinRate
  /\ DashboardStep([dashboard EXCEPT !.isEditingTargetWinRate = TRUE, !.resetFrom = Undef])

TypeTargetWinRate(text) ==
  /\ dashboard.isEditingTargetWinRate
  /\ DashboardStep([dashboard EXCEPT !.editingTargetWinRateValue = text,
                                     !.resetFrom = Undef])

SaveTargetWinRateKey ==
  /\ dashboard.isEditingTargetWinRate
  /\ DashboardStep(handleSaveTargetWinRate(dashboard))

CancelTargetWinRate ==
  /\ dashboard.isEditingTargetWinRate
  /\ DashboardStep([dashboard EXCEPT
       !.isEditingTargetWinRate = FALSE,
       !.editingTargetWinRateValue = NumToString(dashboard.targetWinRate),
       !.resetFrom = Undef])

\* the confirm button of the reset dialog
ConfirmReset == DashboardStep(handleReset(dashboard))

\* the stock list: onChange of the input, the Add button, a remove button
TypeStock(text) ==
  DashboardStep([dashboard EXCEPT !.newStockInput = text, !.resetFrom = Undef])

AddStockClick == DashboardStep(handleAddStock(dashboard))

RemoveStockClick ==
  \E i \in DOMAIN dashboard.sessionStocks :
    DashboardStep(handleRemoveStock(dashboard, dashboard.sessionStocks[i]))

\* the suggestion button, disabled while a suggestion is awaited
GetSuggestion ==
  /\ ~dashboard.isSuggesting
  /\ DashboardStep(SuggestionRequested(dashboard))

SuggestionArrived(result) ==
  /\ dashboard.isSuggesting
  /\ DashboardStep(SuggestionResolved(dashboard, result))

SuggestionFailed ==
  /\ dashboard.isSuggesting
  /\ DashboardStep(SuggestionRejected(dashboard))

\* what the user enters
S_tsla == <<"t","s","l","a">>

TradeForms ==
  {[stock |-> S_tsla, amount |-> a, returnPercentage |-> r, tradeType |-> "call"] :
     a \in {Int2Num(50), Num(125, 1), Int2Num(0)}, r \in {Int2Num(0), Int2Num(80)}}

Outcomes == {"win", "loss"}

PortfolioTexts == {<<"2","5","0",".","5">>, <<"0">>, <<"a","b","c">>}

MaxTrades == 3

\* A fifth specification: the portfolio.  Trades are logged, the initial
\* portfolio is edited and the session is reset.
PortfolioLogTrade ==
  \E values \in TradeForms, outcome \in Outcomes : LogTrade(values, outcome, MaxTrades)

PortfolioType == \E text \in PortfolioTexts : TypeInitialPortfolio(text)

NextPortfolio ==
  \/ PortfolioLogTrade
  \/ EditInitialPortfolio
  \/ PortfolioType
  \/ SaveInitialPortfolioKey
  \/ CancelInitialPortfolio
  \/ ConfirmReset

SpecPortfolio == Init /\ [][NextPortfolio]_vars

\* A sixth specification: the session.  Every setting is edited, stocks are
\* listed, a suggestion is asked for, at most MaxSessionTrades trades are
\* logged, and the session is reset.
MaxSessionTrades == 1

SessionForm ==
  [stock |-> S_tsla, amount |-> Int2Num(50), returnPercentage |-> Int2Num(80),
   tradeType |-> "put"]

SessionSuggestion ==
  [suggestedTradeAmount |-> Int2Num(25), bankruptcyRisk |-> Int2Num(5),
   reasoning |-> "a quarter of the last stake"]

SessionLogTrade == \E outcome \in Outcomes : LogTrade(SessionForm, outcome, MaxSessionTrades)

SessionTypeInitialPortfolio == TypeInitialPortfolio(<<"2","5","0",".","5">>)

SessionTypeSessionGoal == TypeSessionGoal(<<"5">>)

SessionTypeProfitGoal == TypeProfitGoal(<<"5","0">>)

SessionSelectProfitGoalType == \E v \in {"dollar", "percent"} : SelectProfitGoalType(v)

SessionTypeTargetWinRate == \E text \in {<<"6","0">>, <<"1","0","1">>} : TypeTargetWinRate(text)

SessionTypeStock == TypeStock(S_tsla)

SessionSuggestionArrived == SuggestionArrived(SessionSuggestion)

NextSession ==
  \/ SessionLogTrade
  \/ EditInitialPortfolio
  \/ SessionTypeInitialPortfolio
  \/ SaveInitialPortfolioKey
  \/ CancelInitialPortfolio
  \/ EditSessionGoal
  \/ SessionTypeSessionGoal
  \/ SaveSessionGoalKey
  \/ CancelSessionGoal
  \/ EditProfitGoal
  \/ SessionTypeProfitGoal
  \/ SessionSelectProfitGoalType
  \/ SaveProfitGoalKey
  \/ CancelProfitGoal
  \/ EditTargetWinRate
  \/ SessionTypeTargetWinRate
  \/ SaveTargetWinRateKey
  \/ CancelTargetWinRate
  \/ SessionTypeStock
  \/ AddStockClick
  \/ RemoveStockClick
  \/ GetSuggestion
  \/ SessionSuggestionArrived
  \/ SuggestionFailed
  \/ ConfirmReset

SpecSession == Init /\ [][NextSession]_vars

\* A specification of the suggestion alone: trades are logged and the
\* session is reset while a suggestion is asked for, awaited and shown.
MaxSuggestTrades == 3

SuggestLogTrade == \E outcome \in Outcomes : LogTrade(SessionForm, outcome, MaxSuggestTrades)

\* the suggestion button: the handler builds its input from the values of
\* the render it was created in, and awaits the call
SuggestGet ==
  /\ ~dashboard.isSuggesting
  /\ dashboard' = SuggestionRequested(dashboard)
  /\ awaited' = Some(SuggestionInput(dashboard))
  /\ UNCHANGED <<drivers, post, classifier, scanner>>

\* the awaited call returns: its result answers the input it was given
SuggestArrived ==
  /\ dashboard.isSuggesting
  /\ IsDef(awaited)
  /\ dashboard' = SuggestionResolved(dashboard, suggestTradeAmount(Val(awaited)))
  /\ awaited' = Undef
  /\ UNCHANGED <<drivers, post, classifier, scanner>>

\* the awaited call throws
SuggestFailed ==
  /\ dashboard.isSuggesting
  /\ IsDef(awaited)
  /\ dashboard' = SuggestionRejected(dashboard)
  /\ awaited' = Undef
  /\ UNCHANGED <<drivers, post, classifier, scanner>>

NextSuggest ==
  \/ SuggestLogTrade
  \/ SuggestGet
  \/ SuggestArrived
  \/ SuggestFailed
  \/ ConfirmReset

SpecSuggest == Init /\ [][NextSuggest]_vars

\* ------------------------------------------------------------ properties
\* the records of the running call that were pushed at line or row idx
PushedAt(sheet, idx) ==
  {j \in 1..Len(origin) : origin[j].sheet = sheet /\ origin[j].at = idx}

IsNumber(o, m, e) == IsDef(o) /\ Val(o) = Num(m, e)

\* C1: every record a driver has emitted has direction "call" or "put", a
\* non-empty asset, a tradeAmount that is a number other than 0 and a defined
\* profitAmount; so an input whose tradeAmount is 0 emits no record.
C1_EmittedRecordsComplete ==
  \A i \in 1..Len(trades) :
    /\ IsDef(trades[i].direction)
    /\ Val(trades[i].direction) \in {S_call, S_put}
    /\ IsDef(trades[i].asset)
    /\ Val(trades[i].asset) # <<>>
    /\ IsDef(trades[i].tradeAmount)
    /\ ~Val(trades[i].tradeAmount).nan
    /\ Val(trades[i].tradeAmount).m # 0
    /\ IsDef(trades[i].profitAmount)

\* a CSV call that read a row whose amount is 0 and a complete row, and
\* emitted a record for the complete row only
C1_Witness ==
  /\ driver = "csv"
  /\ pc = "done"
  /\ input = <<H_basic, R_zero, R_tsla>>
  /\ Len(trades) = 1
  /\ IsNumber(trades[1].tradeAmount, 200, 0)

\* C2: the free-text driver, given the three lines 'Asset: TSLA',
\* 'Amount: $200', 'Profit: 15%', emits exactly one record, at the third
\* line, with asset TSLA, tradeAmount 200, profitAmount 15, direction "call"
\* and currency "USD".
C2_KeyValueLinesEmitOneRecord ==
  (driver = "text" /\ input = <<T_asset, T_amount, T_profit>>) =>
    /\ Len(trades) = 1
    /\ origin[1].at = 3
    /\ trades[1].asset = Some(<<"T","S","L","A">>)
    /\ IsNumber(trades[1].tradeAmount, 200, 0)
    /\ IsNumber(trades[1].profitAmount, 15, 0)
    /\ trades[1].direction = Some(S_call)
    /\ trades[1].currency = Some(S_USD)

\* what C3 states of the record of the line T_pipe; expiryTime is left open
IsPipeRecord(trade) ==
  /\ trade.direction = Some(S_call)
  /\ trade.orderNumber = Some(<<"#","1","0","0","1">>)
  /\ trade.asset = Some(<<"A","A","P","L">>)
  /\ trade.currency = Some(S_USD)
  /\ IsNumber(trade.profitAmount, 85, 0)
  /\ IsNumber(trade.tradeAmount, 1500, 0)
  /\ IsNumber(trade.openPrice, 12050, 2)
  /\ IsNumber(trade.closePrice, 119, 0)
  /\ trade.openTime = Some(<<"2","0","2","4","-","0","1","-","0","1">>)
  /\ trade.closeTime = Some(<<"2","0","2","4","-","0","1","-","0","2">>)

\* C3: wherever the line 'call | #1001 | AAPL | USD | 85% | 1500 | 120.50 |
\* 119.00 | 2024-01-01 | 2024-01-02' stands in a text, the free-text driver
\* makes exactly one record of it, with direction "call", orderNumber
\* "#1001", asset "AAPL", currency "USD", profitAmount 85, tradeAmount 1500,
\* openPrice 120.5, closePrice 119 and the two dates as openTime, closeTime.
C3_PipeLineClassified ==
  driver = "text" =>
    \A i \in 1..Len(input) :
      input[i] = T_pipe =>
        /\ Cardinality(PushedAt(0, i)) = 1
        /\ \A j \in PushedAt(0, i) : IsPipeRecord(trades[j])

\* a finished free-text call on a text in which the line comes after a
\* key-value line
C3_Witness ==
  /\ driver = "text"
  /\ pc = "done"
  /\ input = <<T_asset, T_pipe>>
  /\ Len(trades) = 1
  /\ origin[1].kind = "pipe"
  /\ IsPipeRecord(trades[1])

\* C4: every record a driver has emitted has all eleven fields defined.
C4_AllFieldsDefined ==
  \A i \in 1..Len(trades) : \A f \in TradeFields : IsDef(trades[i][f])

\* the number the words "remove '$', ',' and '%' from the cell and parse it"
\* give for a cell
StrippedNumber(cell) == parseFloat(trim(RemoveAll(cell, {"$", ",", "%"})))

IsNonZeroNumber(x) == ~x.nan /\ x.m # 0

\* the cell of a CSV row in the column the header gives the field f
CsvCell(cells, f) == cells[Val(columnIndices[f])]

\* what C5 says of data line i, which splits into cells
C5_Row(i, cells) ==
  (/\ Len(cells) >= Len(Val(header))
   /\ CsvCell(cells, "asset") # <<>>
   /\ IsNonZeroNumber(StrippedNumber(CsvCell(cells, "tradeAmount")))) =>
    /\ Cardinality(PushedAt(0, i)) = 1
    /\ \A j \in PushedAt(0, i) : \A f \in NumberFields :
         (IsDef(columnIndices[f]) /\ ~StrippedNumber(CsvCell(cells, f)).nan) =>
           trades[j][f] = Some(StrippedNumber(CsvCell(cells, f)))

\* C5: under a header with an alias for each of asset, tradeAmount and
\* profitAmount, every data row with at least as many fields as the header,
\* a non-empty asset cell and an amount cell that parses to a nonzero number
\* has exactly one record in the output of the CSV driver, and each numeric
\* field of the record is the number got by removing '$', ',' and '%' from
\* its cell and parsing the rest.
C5_CsvNumbersAreStrippedCells ==
  (/\ driver = "csv"
   /\ pc = "done"
   /\ IsDef(header)
   /\ IsDef(columnIndices["asset"])
   /\ IsDef(columnIndices["tradeAmount"])
   /\ IsDef(columnIndices["profitAmount"])) =>
    \A i \in 2..Len(input) : C5_Row(i, parseCSVLine(input[i]))

IsZero(o) == o = Some(Int2Num(0))

IsANumber(o) == IsDef(o) /\ ~Val(o).nan

\* a numeric field read from a cell is a number, and 0 when the cell cannot
\* be parsed
DegradesToZero(cell, o) ==
  /\ IsANumber(o)
  /\ StrippedNumber(cell).nan => IsZero(o)

\* C10 for data line i of a CSV text, which splits into cells
C10_CsvRow(i, cells) ==
  Len(cells) >= Len(Val(header)) =>
    \A f \in NumberFields :
      IsDef(columnIndices[f]) =>
        /\ DegradesToZero(CsvCell(cells, f), CSVExtract(cells, columnIndices)[f])
        /\ \A j \in PushedAt(0, i) : DegradesToZero(CsvCell(cells, f), trades[j][f])

\* C10 for row i of sheet k and the non-empty cells the row has for field f
C10_ExcelCells(k, i, row, f, cells) ==
  (cells # <<>> /\ cells[1].t = "str") =>
    /\ DegradesToZero(cells[1].s, ExcelExtract(row)[f])
    /\ \A j \in PushedAt(k, i) : DegradesToZero(cells[1].s, trades[j][f])

C10_ExcelRow(k, i, row) ==
  \A f \in NumberFields : C10_ExcelCells(k, i, row, f, FilledCells(row, mapColumns(row)[f]))

\* the record of the pipe-delimited line PipeLineWith without a third token
PipeLineRecord == parseTextToTrades(<<PipeLineWith(<<>>)>>)[1]

\* C10 for a line of the tokens toks: those of PipeLineWith and one more
C10_Tokens(toks) ==
  (/\ Len(toks) = 11
   /\ SubSeq(toks, 1, 2) \o SubSeq(toks, 4, 11) = SplitTrimFilter(PipeLineWith(<<>>), "|")
   /\ ~IsNumericToken(toks[3])) =>
    /\ Len(trades) = 1
    /\ \A f \in NumberFields : trades[1][f] = PipeLineRecord[f]

\* C10: in the CSV and the spreadsheet drivers a numeric field read from a
\* cell that cannot be parsed is 0, never missing and never NaN; in the
\* free-text driver a token that is not a well-formed numeral sets no numeric
\* field of the record of its line: they are those the line has without it,
\* openPrice and closePrice unset.
C10_UnparsedNumbers ==
  /\ (driver = "csv" /\ IsDef(header)) =>
       \A i \in 2..Len(input) : C10_CsvRow(i, parseCSVLine(input[i]))
  /\ driver = "excel" =>
       \A k \in 1..Len(workbook) : \A i \in 1..Len(workbook[k]) :
         C10_ExcelRow(k, i, workbook[k][i])
  /\ (driver = "text" /\ pc = "done" /\ Len(input) = 1) =>
       /\ ~IsDef(PipeLineRecord.openPrice)
       /\ ~IsDef(PipeLineRecord.closePrice)
       /\ C10_Tokens(SplitTrimFilter(input[1], "|"))

\* a finished CSV call on a row whose profit cell is "$-": the record was
\* emitted with profitAmount 0
C10_Witness ==
  /\ driver = "csv"
  /\ pc = "done"
  /\ input = <<H_basic, CsvProfitRow(<<"$", "-">>)>>
  /\ Len(trades) = 1
  /\ IsZero(trades[1].profitAmount)

\* the data line has fewer fields than the header of the running CSV call
IsShortRow(line) == Len(parseCSVLine(line)) < Len(Val(header))

\* C6: a finished call of the CSV driver has emitted no record for a data
\* row with fewer fields than the header, whatever its cells hold, and its
\* output is the output for the text without such rows.
C6_ShortRowsSkipped ==
  (driver = "csv" /\ IsDef(header) /\ pc = "done") =>
    /\ \A i \in 2..Len(input) : IsShortRow(input[i]) => PushedAt(0, i) = {}
    /\ trades = CsvFold(RunStart, SelectSeq(input, LAMBDA l : ~IsShortRow(l)),
                        Val(header), columnIndices, 2).trades

\* a finished CSV call in which a short row with an asset and an amount
\* stands between two rows that emitted their records
C6_Witness ==
  /\ driver = "csv"
  /\ pc = "done"
  /\ input = <<H_basic, R_tsla, R_short, R_quoted>>
  /\ PushedAt(0, 3) = {}
  /\ Len(trades) = 2

\* C7: what a call of a driver returns is a function of the input of that
\* call alone: it is what the driver computes from a fresh start, whatever
\* the calls before it were.
C7_OutputDependsOnInputOnly ==
  pc = "done" =>
    CASE driver = "text" -> trades = parseTextToTrades(input)
      [] driver = "csv" -> trades = parseCsvTrades(input)
      [] driver = "excel" -> trades = parseExcelTrades(workbook)

\* a free-text call made after another call had finished, which returned
\* a comma-delimited and a key-value record
C7_Witness ==
  /\ recalled
  /\ pc = "done"
  /\ driver = "text"
  /\ input = <<T_both, T_asset, T_amount, T_profit>>
  /\ Len(trades) = 2

\* the record of trades[j] is the one its source line or row produces
FromItsSource(j) ==
  CASE origin[j].kind = "csv" ->
         Some(trades[j]) = parseCSVRow(parseCSVLine(input[origin[j].at]), columnIndices)
    [] origin[j].kind = "excel" ->
         Some(trades[j]) = parseExcelRow(workbook[origin[j].sheet][origin[j].at])
    [] origin[j].kind = "pipe" ->
         Some(trades[j]) = parseDelimitedLine(SplitTrimFilter(input[origin[j].at], "|"))
    [] origin[j].kind = "comma" ->
         Some(trades[j]) = parseDelimitedLine(SplitTrimFilter(input[origin[j].at], ","))
    [] origin[j].kind = "kv" -> includes(input[origin[j].at], <<":">>)
    [] origin[j].kind = "end" -> origin[j].at = Len(input) + 1

\* C8: the records of a call stand in source order: one from an earlier
\* line, row or sheet precedes one from a later; a key-value record stands at
\* the line that completed it, and where the same line also gives a
\* comma-delimited record the key-value record comes first.
C8_SourceOrder ==
  /\ Len(origin) = Len(trades)
  /\ pc = "done" => \A j \in 1..Len(origin) : FromItsSource(j)
  /\ \A j \in 1..(Len(origin) - 1) :
       \/ origin[j].sheet < origin[j + 1].sheet
       \/ /\ origin[j].sheet = origin[j + 1].sheet
          /\ origin[j].at < origin[j + 1].at
       \/ /\ origin[j].sheet = origin[j + 1].sheet
          /\ origin[j].at = origin[j + 1].at
          /\ origin[j].kind = "kv"
          /\ origin[j + 1].kind = "comma"

\* a free-text call whose fourth line completed a key-value record and was
\* itself a comma-delimited record
C8_Witness ==
  /\ driver = "text"
  /\ input = <<T_asset, T_amount, T_profit, T_both>>
  /\ Len(trades) = 2
  /\ origin[1] = [sheet |-> 0, at |-> 4, kind |-> "kv"]
  /\ origin[2] = [sheet |-> 0, at |-> 4, kind |-> "comma"]

\* the outputs of the loop of the CSV driver for lines[i], lines[i+1], ...
\* each alone as the only data line under the header of the running call,
\* one after the other
RECURSIVE CsvRowByRow(_, _)
CsvRowByRow(lines, i) ==
  IF i > Len(lines) THEN <<>>
  ELSE CsvFold(RunStart, <<lines[1], lines[i]>>, Val(header), columnIndices, 2).trades
         \o CsvRowByRow(lines, i + 1)

\* the outputs of the spreadsheet driver for each row of a sheet alone
RECURSIVE SheetRowByRow(_, _)
SheetRowByRow(rows, i) ==
  IF i > Len(rows) THEN <<>>
  ELSE parseExcelTrades(<<<<rows[i]>>>>) \o SheetRowByRow(rows, i + 1)

RECURSIVE WorkbookRowByRow(_, _)
WorkbookRowByRow(sheets, k) ==
  IF k > Len(sheets) THEN <<>>
  ELSE SheetRowByRow(sheets[k], 1) \o WorkbookRowByRow(sheets, k + 1)

\* C9: in the CSV and the spreadsheet drivers a row that gives no record
\* leaves every other row alone: the output of a finished call is the outputs
\* of the rows, each taken alone, in order.
C9_RowsIndependent ==
  pc = "done" =>
    /\ (driver = "csv" /\ IsDef(header)) => trades = CsvRowByRow(input, 2)
    /\ driver = "excel" => trades = WorkbookRowByRow(workbook, 1)

\* a finished CSV call in which a row without an asset stands between two
\* rows that emitted their records
C9_Witness ==
  /\ driver = "csv"
  /\ pc = "done"
  /\ input = <<H_basic, R_tsla, R_noasset, R_quoted>>
  /\ Len(trades) = 2
  /\ origin[1].at = 2
  /\ origin[2].at = 4

\* the key and the value a line brings to the key-value attempt: none when
\* the pipe attempt pushed a record for the line
KeyValueUnlessPipe(line, pipeDelimited) ==
  IF PipeParsed(Len(pipeDelimited), parseDelimitedLine(pipeDelimited)) THEN Undef
  ELSE KeyValueMatch(line)

KeyValueOf(line) == KeyValueUnlessPipe(line, SplitTrimFilter(line, "|"))

\* what a key-value line writes: the accumulator it makes of an empty one
WrittenKeyValue(kv) ==
  IF ~IsDef(kv) THEN EmptyTrade
  ELSE AssignKeyValue(EmptyTrade, Val(kv).key, Val(kv).value)

Written(line) == WrittenKeyValue(KeyValueOf(line))

\* what each line of the text writes
Writes(lines) == SubSeq([i \in 1..Len(lines) |-> Written(lines[i])], 1, Len(lines))

\* no field is written by two lines
WritesOnce(ws) ==
  \A f \in TradeFields : Cardinality({i \in DOMAIN ws : IsDef(ws[i][f])}) <= 1

\* the lines supply a non-empty asset and a nonzero amount
SuppliesAssetAndAmount(ws) ==
  /\ \E i \in DOMAIN ws : TruthyStr(ws[i].asset)
  /\ \E i \in DOMAIN ws : TruthyNum(ws[i].tradeAmount)

SuppliesZeroProfit(ws) == \E i \in DOMAIN ws : IsZero(ws[i].profitAmount)

SuppliesNoProfit(ws) == \A i \in DOMAIN ws : ~IsDef(ws[i].profitAmount)

\* the records of the call that came from the key-value accumulator
KeyValueRecords == {j \in 1..Len(origin) : origin[j].kind \in {"kv", "end"}}

\* C11 for a text whose lines write ws
C11_Run(ws) ==
  (WritesOnce(ws) /\ SuppliesAssetAndAmount(ws)) =>
    /\ SuppliesZeroProfit(ws) =>
         /\ Cardinality(KeyValueRecords) = 1
         /\ \A j \in KeyValueRecords : IsZero(trades[j].profitAmount)
    /\ SuppliesNoProfit(ws) => KeyValueRecords = {}

\* C11, for key-value runs: a finished call of the free-text driver on a
\* text whose key-value lines write each field at most once, among them a
\* non-empty asset, a nonzero amount and a profit of 0, with or without a
\* direction line, has emitted exactly one key-value record, and its
\* profitAmount is 0; the same with no profit line has emitted none.
C11_ZeroProfitIsAValue == (driver = "text" /\ pc = "done") => C11_Run(Writes(input))

C11_DirectionWritten(ws) == (\E i \in DOMAIN ws : IsDef(ws[i].direction)) => C11_Run(ws)

\* C11 for the runs in which a line writes the direction
C11_WithDirectionLine ==
  (driver = "text" /\ pc = "done") => C11_DirectionWritten(Writes(input))

IsUpperCase(o) == IsDef(o) => Val(o) = toUpperCase(Val(o))

\* C12: in every record a driver has emitted, asset and currency are equal
\* to their upper-cased forms.
C12_AssetAndCurrencyUpperCase ==
  \A j \in DOMAIN trades : IsUpperCase(trades[j].asset) /\ IsUpperCase(trades[j].currency)

\* the asset of every emitted record is upper-case
C12_AssetUpperCase == \A j \in DOMAIN trades : IsUpperCase(trades[j].asset)

CallWords == {S_call, <<"b","u","y">>, <<"l","o","n","g">>}

PutWords == {S_put, <<"s","e","l","l">>, <<"s","h","o","r","t">>}

\* the direction C13 gives a free-form value
CoercedDirection(value) ==
  IF \E w \in CallWords : includes(toLowerCase(value), w) THEN S_call
  ELSE IF \E w \in PutWords : includes(toLowerCase(value), w) THEN S_put
  ELSE S_call

\* C13 for a line of free text that brings the key and value kv to the
\* key-value attempt
C13_KeyValue(kv) ==
  (IsDef(kv) /\ IsDef(WrittenKeyValue(kv).direction)) =>
    WrittenKeyValue(kv).direction = Some(CoercedDirection(Val(kv).value))

\* C13 for a data line of a CSV text, which splits into cells
C13_CsvRow(cells) ==
  (Len(cells) >= Len(Val(header)) /\ IsDef(columnIndices["direction"])) =>
    CSVExtract(cells, columnIndices).direction
      = Some(CoercedDirection(CsvCell(cells, "direction")))

\* C13 for a row of a sheet and the non-empty cells it has for direction
C13_ExcelRow(row, cells) ==
  cells # <<>> =>
    ExcelExtract(row).direction = Some(CoercedDirection(CellToString(cells[1])))

\* C13: the direction a driver reads from a direction cell of a CSV row,
\* from a direction cell of a spreadsheet row or from the value of a
\* key-value direction line is "call" when the lower-cased value contains
\* call, buy or long, else "put" when it contains put, sell or short, else
\* "call".
C13_DirectionCoercion ==
  /\ driver = "text" => \A i \in DOMAIN input : C13_KeyValue(KeyValueOf(input[i]))
  /\ (driver = "csv" /\ IsDef(header)) =>
       \A i \in 2..Len(input) : C13_CsvRow(parseCSVLine(input[i]))
  /\ driver = "excel" =>
       \A k \in 1..Len(workbook) : \A i \in 1..Len(workbook[k]) :
         C13_ExcelRow(workbook[k][i],
                      FilledCells(workbook[k][i], mapColumns(workbook[k][i]).direction))

\* the entry is a File whose name ends in ".pdf", in any case of letters
IsPdfFile(file) ==
  /\ IsDef(file)
  /\ Val(file).kind = "file"
  /\ Len(Val(file).name) >= 4
  /\ \A i \in 1..4 : toLowerChar(Val(file).name[Len(Val(file).name) - 4 + i]) = S_pdf[i]

\* C14 for a request that has been answered
C14_Response(p, r) ==
  /\ ~IsPdfFile(p.file) =>
       r.status = 400 /\ ~p.decoderCalled /\ ~p.engineCalled
  /\ (IsPdfFile(p.file) /\ IsDef(p.thrown)) =>
       /\ r.status = 500
       /\ Val(p.thrown).isError => r.error = Some(Val(p.thrown).message)
  /\ (IsPdfFile(p.file) /\ ~IsDef(p.thrown)) =>
       /\ r.status = 200
       /\ r.trades = Some(parseTextToTrades(Val(p.text)))

\* C14: a request without a file, or with a file whose name does not end in
\* ".pdf" in any case of letters, is answered with status 400 and neither the
\* decoder nor the engine has been invoked; a request for which the decoder
\* or the engine raised is answered with status 500 and the message of the
\* exception as error; any other request is answered with the trades that
\* parseTextToTrades gives for the decoded text.
C14_UploadResponses ==
  post.phase = "responded" => C14_Response(post, Val(post.response))

\* C14 for the requests whose 'file' entry is absent or a File
C14_FileUploads ==
  (/\ post.phase = "responded"
   /\ IsDef(post.file) => Val(post.file).kind = "file") =>
    C14_Response(post, Val(post.response))

\* what C15 has a logged trade contribute
Contribution(t) ==
  IF t.outcome = "win" THEN NumPercent(NumMul(t.amount, t.returnPercentage))
  ELSE NumNeg(t.amount)

RECURSIVE Contributions(_, _)
Contributions(ts, i) ==
  IF i > Len(ts) THEN Int2Num(0) ELSE NumAdd(Contribution(ts[i]), Contributions(ts, i + 1))

\* C15: the portfolio value the dashboard shows is the initial portfolio
\* plus the sum of the profit fields of the logged trades, the profit of a
\* win being amount * returnPercentage / 100 and that of a loss -amount; and
\* the wins and the losses it shows are the numbers of trades logged as a
\* win and as a loss, which add up to the number of logged trades.
C15_PortfolioIsInitialPlusProfits ==
  /\ portfolioValue(dashboard) = NumAdd(dashboard.initialPortfolio, totalProfit(dashboard))
  /\ \A i \in DOMAIN dashboard.trades :
       dashboard.trades[i].profit = Contribution(dashboard.trades[i])
  /\ totalProfit(dashboard) = Contributions(dashboard.trades, 1)
  /\ losses(dashboard)
       = Cardinality({i \in DOMAIN dashboard.trades : dashboard.trades[i].outcome = "loss"})
  /\ wins(dashboard) + losses(dashboard) = Len(dashboard.trades)

\* two wins, of 40 and of 0, and a loss of 12.5 on a saved initial portfolio
\* of 250.5: the dashboard shows 278
C15_Witness ==
  /\ Len(dashboard.trades) = 3
  /\ dashboard.initialPortfolio = Num(2505, 1)
  /\ wins(dashboard) = 2
  /\ losses(dashboard) = 1
  /\ totalProfit(dashboard) = Num(275, 1)
  /\ portfolioValue(dashboard) = Int2Num(278)

\* C16: in the state a confirmed session reset leaves, the trade list and
\* the session stock list are empty, the suggestion is null, the initial
\* portfolio is 1000, the session goal 10, the profit goal 100 in dollars,
\* the target win rate 70 and the risk level high, and no edit mode is open.
C16_ResetClearsSession ==
  IsDef(dashboard.resetFrom) =>
    /\ dashboard.trades = <<>>
    /\ dashboard.sessionStocks = <<>>
    /\ dashboard.suggestion = Undef
    /\ dashboard.initialPortfolio = Int2Num(1000)
    /\ dashboard.sessionGoal = Int2Num(10)
    /\ dashboard.profitGoal = Int2Num(100)
    /\ dashboard.profitGoalType = "dollar"
    /\ dashboard.targetWinRate = Int2Num(70)
    /\ dashboard.riskLevel = "high"
    /\ ~dashboard.isEditingInitialPortfolio
    /\ ~dashboard.isEditingSessionGoal
    /\ ~dashboard.isEditingProfitGoal
    /\ ~dashboard.isEditingTargetWinRate

\* a reset has found every value changed that the component can change: a
\* logged trade, a listed stock, a suggestion, the four settings and the type
\* of the profit goal saved with other values, the four edit modes open
C16_Witness ==
  /\ IsDef(dashboard.resetFrom)
  /\ Val(dashboard.resetFrom) = SessionValues \ {"riskLevel"}

\* the record a delimited attempt emits for a line of these tokens, if any
DelimitedRecord(tokens, least) ==
  IF Len(tokens) >= least THEN parseDelimitedLine(tokens) ELSE Undef

PipeRecord(line) == DelimitedRecord(SplitTrimFilter(line, "|"), 10)

CommaRecord(line) == DelimitedRecord(SplitTrimFilter(line, ","), 8)

\* the records the step has pushed, and those of one pattern
Pushed == (Len(trades) + 1)..Len(trades')

PushedBy(kind) == {j \in Pushed : origin'[j].kind = kind}

\* the step has run a delimited attempt on the line: it pushed the record
\* the attempt gives, or none
DelimitedOffered(record, kind) ==
  IF IsDef(record)
    THEN \E j \in Pushed : PushedBy(kind) = {j} /\ trades'[j] = Val(record)
    ELSE PushedBy(kind) = {}

\* the step has run the key-value attempt on a line with the groups kv,
\* which make upd of the accumulator
KeyValueOffered(kv, upd) ==
  IF ~IsDef(kv) THEN currentTrade' = currentTrade /\ PushedBy("kv") = {}
  ELSE IF isTradeComplete(upd)
    THEN /\ currentTrade' = Undef
         /\ \E j \in Pushed : PushedBy("kv") = {j} /\ trades'[j] = upd
  ELSE currentTrade' = Some(upd) /\ PushedBy("kv") = {}

KeyValueOfferedLine(kv) ==
  KeyValueOffered(kv, IF IsDef(kv)
                        THEN AssignKeyValue(Accumulator(RunState), Val(kv).key, Val(kv).value)
                        ELSE EmptyTrade)

\* the step takes one more line of the text
IsLineStep == driver = "text" /\ pc = "run" /\ pc' = "run" /\ Len(input') = Len(input) + 1

\* the step has run all three attempts on the line
AllThreeOffered(line) ==
  /\ DelimitedOffered(PipeRecord(line), "pipe")
  /\ KeyValueOfferedLine(KeyValueMatch(line))
  /\ DelimitedOffered(CommaRecord(line), "comma")

\* the step has run the pipe attempt on the line and, if and only if that
\* pushed no record, the key-value and the comma attempt
PipeElseBothOffered(line) ==
  /\ DelimitedOffered(PipeRecord(line), "pipe")
  /\ IF IsDef(PipeRecord(line))
       THEN currentTrade' = currentTrade /\ Len(trades') = Len(trades) + 1
       ELSE /\ KeyValueOfferedLine(KeyValueMatch(line))
            /\ DelimitedOffered(CommaRecord(line), "comma")

\* C17: on every non-blank line the free-text driver runs the pipe, the
\* key-value and the comma attempt, whether or not an earlier attempt on the
\* line pushed a record.
C17_AllAttemptsOnEveryLine ==
  [][IsLineStep => AllThreeOffered(input'[Len(input')])]_vars

\* C17, amended: on every non-blank line the driver runs the pipe attempt;
\* when that pushes a record the line is done and the accumulator is as it
\* was; otherwise the driver runs the key-value and then the comma attempt,
\* the comma attempt also when the key-value attempt pushed a record.
C17_PipeElseBothAttempts ==
  [][IsLineStep => PipeElseBothOffered(input'[Len(input')])]_vars

\* a key-value record and a comma record pushed at the same line
C17_Witness ==
  /\ driver = "text"
  /\ \E j \in 1..(Len(origin) - 1) :
       /\ origin[j].kind = "kv"
       /\ origin[j + 1].kind = "comma"
       /\ origin[j].at = origin[j + 1].at

\* for each line of the text what the key-value attempt writes on it, Undef
\* for a line the attempt is not run on or does not match
Offer(kv) == IF IsDef(kv) THEN Some(WrittenKeyValue(kv)) ELSE Undef

\* the same for the lines of the corpus, worked out once
CorpusOffers == [line \in KeyValueCorpus |-> Offer(KeyValueOf(line))]

OfferOf(line) ==
  IF line \in KeyValueCorpus THEN CorpusOffers[line] ELSE Offer(KeyValueOf(line))

Offers(lines) == SubSeq([i \in 1..Len(lines) |-> OfferOf(lines[i])], 1, Len(lines))

\* the lines b+1..a that write field f, and the accumulator these lines
\* make: each field as its last writer wrote it
WritersOf(ow, b, a, f) == {k \in (b + 1)..a : IsDef(ow[k]) /\ IsDef(Val(ow[k])[f])}

AccumulatedOver(ow, b, a) ==
  [f \in TradeFields |->
     IF WritersOf(ow, b, a, f) = {} THEN Undef
     ELSE Val(ow[Greatest(WritersOf(ow, b, a, f))])[f]]

\* the lines at which the key-value attempt pushed a record, and the last of
\* them before line a (0 when there is none)
FlushLines == {origin[j].at : j \in {i \in 1..Len(origin) : origin[i].kind = "kv"}}

FlushBefore(a) == Greatest({0} \cup {b \in FlushLines : b < a})

\* the accumulator stays incomplete over the lines b+1..a
IncompleteOver(ow, b, a) ==
  \A c \in (b + 1)..a : ~isTradeComplete(AccumulatedOver(ow, b, c))

\* a key-value record pushed at line a holds what the lines since the flush
\* before wrote, and these lines complete it at line a and not earlier
C18_Record(ow, trade, a) ==
  /\ IsDef(ow[a])
  /\ trade = AccumulatedOver(ow, FlushBefore(a), a)
  /\ isTradeComplete(trade)
  /\ IncompleteOver(ow, FlushBefore(a), a - 1)

\* the accumulator holds what the n lines since the last flush wrote, is
\* incomplete, and is null when the key-value attempt matched none of them
C18_Accumulator(ow, b, n) ==
  /\ IF \A k \in (b + 1)..n : ~IsDef(ow[k]) THEN currentTrade = Undef
     ELSE currentTrade = Some(AccumulatedOver(ow, b, n))
  /\ IncompleteOver(ow, b, n)

C18_Run(ow) ==
  /\ \A j \in 1..Len(origin) :
       /\ origin[j].kind # "end"
       /\ origin[j].kind = "kv" => C18_Record(ow, trades[j], origin[j].at)
  /\ Cardinality(FlushLines) = Cardinality({j \in 1..Len(origin) : origin[j].kind = "kv"})
  /\ C18_Accumulator(ow, FlushBefore(Len(ow) + 1), Len(ow))

\* C18: in a call of the free-text driver, each key-value record holds, field
\* by field, what the key-value lines after the previous flush last wrote,
\* whatever lines stand between them; it is pushed at the first line at
\* which these writes are complete, once; the accumulator holds only what the
\* key-value lines since the last flush wrote and is incomplete; and the end
\* of the input pushes no record for it.
C18_AccumulatorPersistsUntilComplete ==
  driver = "text" => C18_Run(Offers(NonBlank(input)))

\* the asset of line 1 has reached the record pushed at line 5 across a
\* line that pushed a pipe record; the accumulator is null again although
\* line 5 also pushed a comma record
C18_Witness ==
  /\ driver = "text"
  /\ pc = "done"
  /\ input = <<K_asset, P_time, T_amount, K_profit, K_direction>>
  /\ Len(trades) = 3
  /\ origin[1].kind = "pipe"
  /\ origin[2] = [sheet |-> 0, at |-> 5, kind |-> "kv"]
  /\ trades[2].asset = Some(S_TSLA)
  /\ origin[3].kind = "comma"
  /\ currentTrade = Undef

\* after a flush at line 4 the accumulator holds the currency of line 5 and
\* nothing of the record
C18_WitnessAfterFlush ==
  /\ driver = "text"
  /\ pc = "done"
  /\ input = <<K_asset, T_amount, K_profit, K_direction, K_currency>>
  /\ FlushLines = {4}
  /\ currentTrade = Some([EmptyTrade EXCEPT !.currency = Some(<<"u","s","d">>)])
  /\ Len(trades) = 2

\* the step is an iteration of the classifier's loop
IsTokenStep == classifier.phase = "loop" /\ classifier'.phase = "loop"

\* C19: while the token classifier consumes a line, a direction that has
\* been set is left as it is by every later token: the first token equal to
\* call or put, in any case of letters, determines the direction.
C19_DirectionSetOnce ==
  [][(IsTokenStep /\ IsDef(classifier.trade.direction)) =>
       classifier'.trade.direction = classifier.trade.direction]_vars

\* the slots C20 names
SlotsFilledOnce ==
  {"orderNumber", "asset", "profitAmount", "tradeAmount", "openPrice", "closePrice",
   "openTime", "closeTime", "expiryTime"}

\* C20: while the token classifier consumes a line, a slot among
\* orderNumber, asset, profitAmount, tradeAmount, openPrice, closePrice,
\* openTime, closeTime and expiryTime that has been given a value, be it 0,
\* is left as it is by every later token.
C20_SlotsFilledOnce ==
  [][IsTokenStep =>
       \A f \in SlotsFilledOnce :
         IsDef(classifier.trade[f]) => classifier'.trade[f] = classifier.trade[f]]_vars

\* C20 for the slots other than profitAmount, and for a profitAmount other
\* than 0
C20_NonZeroSlotsFilledOnce ==
  [][IsTokenStep =>
       /\ \A f \in SlotsFilledOnce \ {"profitAmount"} :
            IsDef(classifier.trade[f]) => classifier'.trade[f] = classifier.trade[f]
       /\ TruthyNum(classifier.trade.profitAmount) =>
            classifier'.trade.profitAmount = classifier.trade.profitAmount]_vars

\* the token the step consumes
TokenOf(c) == c.values[Len(c.values)]

\* the token reaches the numeric rule: it looks numeric and no earlier rule
\* of the loop takes it (of the earlier rules only the order number's
\* matches a numeric-looking token)
ReachesNumericRule(trade, tok) ==
  /\ IsNumericToken(tok)
  /\ ~(IsOrderToken(toLowerCase(tok)) /\ ~IsDef(trade.orderNumber))

\* the placement C21 states, a slot being unset when it has no value
PlacedByPriority(trade, tok, num) ==
  IF includes(tok, <<"%">>) /\ ~IsDef(trade.profitAmount)
    THEN [trade EXCEPT !.profitAmount = Some(num)]
  ELSE IF NumGt(num, 1000) /\ ~IsDef(trade.tradeAmount)
    THEN [trade EXCEPT !.tradeAmount = Some(num)]
  ELSE IF NumGt(num, 0) /\ NumLt(num, 1000) /\ ~IsDef(trade.openPrice)
    THEN [trade EXCEPT !.openPrice = Some(num)]
  ELSE IF NumGt(num, 0) /\ NumLt(num, 1000) /\ ~IsDef(trade.closePrice)
    THEN [trade EXCEPT !.closePrice = Some(num)]
  ELSE trade

C21_Step(c, d, tok) ==
  /\ ReachesNumericRule(c.trade, tok) =>
       d.trade = PlacedByPriority(c.trade, tok, parseFloat(RemoveAll(tok, {"$", "%"})))
  /\ (IsDef(d.trade.closePrice) /\ ~IsDef(c.trade.closePrice)) => IsDef(c.trade.openPrice)

\* C21: a numeric-looking token that reaches the numeric rule of the token
\* classifier is placed by strict priority: profitAmount if it contains '%'
\* and profitAmount is unset, else tradeAmount if its value is above 1000
\* and tradeAmount is unset, else openPrice if 0 < value < 1000 and
\* openPrice is unset, else closePrice under the same condition, else it is
\* ignored; closePrice is set only when an earlier token set openPrice.
C21_NumericPriority ==
  [][IsTokenStep => C21_Step(classifier, classifier', TokenOf(classifier'))]_vars

\* C21 in the states where profitAmount is not 0
C21_NumericPriorityUnlessZeroProfit ==
  [][(IsTokenStep /\ ~IsZero(classifier.trade.profitAmount)) =>
       C21_Step(classifier, classifier', TokenOf(classifier'))]_vars

\* the date/time-looking tokens among values, in the order they appear
DateTokens(values) == SelectSeq(values, IsDateToken)

\* the k-th of them, if there is one
NthDate(dates, k) == IF k <= Len(dates) THEN Some(dates[k]) ELSE Undef

C22_Filled(trade, dates) ==
  /\ trade.openTime = NthDate(dates, 1)
  /\ trade.closeTime = NthDate(dates, 2)
  /\ trade.expiryTime = NthDate(dates, 3)
  /\ IsDef(trade.closeTime) => IsDef(trade.openTime)
  /\ IsDef(trade.expiryTime) => IsDef(trade.closeTime)

\* C22: in the token classifier, at every point of the loop and at the
\* return, openTime, closeTime and expiryTime are the first, second and
\* third date/time-looking token consumed so far (unset when there is no
\* such token); further ones are ignored; closeTime is never set without
\* openTime, nor expiryTime without closeTime.
C22_DatesInOrder ==
  classifier.phase # "idle" => C22_Filled(classifier.trade, DateTokens(classifier.values))

\* four date/time-looking tokens on one line: the fourth is ignored
C22_Witness ==
  /\ classifier.phase = "loop"
  /\ classifier.values = <<D_date, D_open, D_close, D_expiry>>
  /\ classifier.trade.openTime = Some(D_date)
  /\ classifier.trade.closeTime = Some(D_open)
  /\ classifier.trade.expiryTime = Some(D_close)

\* the fields a key-value line can write, in the priority C23 states, each
\* with the synonyms the key is searched for
KeyPriority ==
  <<[field |-> "orderNumber",
     synonyms |-> {<<"o","r","d","e","r">>}],
    [field |-> "asset",
     synonyms |-> {<<"a","s","s","e","t">>, <<"s","y","m","b","o","l">>}],
    [field |-> "direction",
     synonyms |-> {<<"c","a","l","l">>, <<"p","u","t">>}],
    [field |-> "tradeAmount",
     synonyms |-> {<<"a","m","o","u","n","t">>, <<"i","n","v","e","s","t","m","e","n","t">>}],
    [field |-> "profitAmount",
     synonyms |-> {<<"p","r","o","f","i","t">>, <<"p","a","y","o","u","t">>, <<"p","/","l">>}],
    [field |-> "openPrice",
     synonyms |-> {<<"o","p","e","n"," ","p","r","i","c","e">>}],
    [field |-> "closePrice",
     synonyms |-> {<<"c","l","o","s","e"," ","p","r","i","c","e">>}],
    [field |-> "openTime",
     synonyms |-> {<<"o","p","e","n"," ","t","i","m","e">>}],
    [field |-> "closeTime",
     synonyms |-> {<<"c","l","o","s","e"," ","t","i","m","e">>}],
    [field |-> "expiryTime",
     synonyms |-> {<<"e","x","p","i","r">>}],
    [field |-> "currency",
     synonyms |-> {<<"c","u","r","r","e","n","c","y">>}]>>

\* the places of KeyPriority with a synonym the lower-cased key contains
KeyHits(key) ==
  {k \in DOMAIN KeyPriority :
     \E syn \in KeyPriority[k].synonyms : includes(toLowerCase(key), syn)}

\* the accumulator after the key-value attempt of the step: the record the
\* attempt pushed, or the accumulator it left
AccumulatorAfter ==
  IF PushedBy("kv") # {} THEN trades'[Greatest(PushedBy("kv"))]
  ELSE IF IsDef(currentTrade') THEN Val(currentTrade')
  ELSE EmptyTrade

\* the step has written of the line's key the field of the earliest place
\* among hits, and no other field; no field when hits is empty
WritesEarliest(before, after, hits) ==
  IF hits = {} THEN after = before
  ELSE /\ IsDef(after[KeyPriority[Least(hits)].field])
       /\ \A f \in TradeFields \ {KeyPriority[Least(hits)].field} : after[f] = before[f]

C23_Line(kv) ==
  IsDef(kv) => WritesEarliest(Accumulator(RunState), AccumulatorAfter, KeyHits(Val(kv).key))

\* C23: a free-text key-value line writes at most one field of the
\* accumulator: the field of the earliest entry, in the order order,
\* asset/symbol, call/put, amount/investment, profit/payout/p/l, open price,
\* close price, open time, close time, expir, currency, with a synonym the
\* lower-cased key contains; a key that contains none writes nothing.
C23_KeyPriority ==
  [][IsLineStep => C23_Line(KeyValueMatch(input'[Len(input')]))]_vars

\* 'Profit Amount: 85' has written tradeAmount and not profitAmount
C23_Witness ==
  /\ driver = "text"
  /\ pc = "run"
  /\ input = <<Q_symbolPut, Q_profitAmount>>
  /\ IsDef(currentTrade)
  /\ Val(currentTrade).asset = Some(S_TSLA)
  /\ IsNumber(Val(currentTrade).tradeAmount, 85, 0)
  /\ ~IsDef(Val(currentTrade).profitAmount)
  /\ ~IsDef(Val(currentTrade).direction)

\* four lines whose keys name several fields each complete a record
C23_WitnessRecord ==
  /\ driver = "text"
  /\ input = <<Q_symbolPut, Q_profitAmount, Q_pl, Q_putPayout>>
  /\ currentTrade = Undef
  /\ Len(trades) = 1
  /\ trades[1].direction = Some(S_call)
  /\ trades[1].asset = Some(S_TSLA)
  /\ IsNumber(trades[1].tradeAmount, 85, 0)
  /\ IsNumber(trades[1].profitAmount, 5, 0)

\* the aliases of field f, by position in the alias table, that equal some
\* cell of the header hs case-insensitively after trimming
AliasesInHeader(hs, f) ==
  {k \in DOMAIN COLUMN_MAP[f] :
     \E i \in DOMAIN hs : trim(toLowerCase(hs[i])) = COLUMN_MAP[f][k]}

\* field f is bound to the column of the first such alias, or to none
BoundToFirstAlias(hs, f, found) ==
  IF found = {} THEN ~IsDef(columnIndices[f])
  ELSE /\ IsDef(columnIndices[f])
       /\ Val(columnIndices[f]) \in DOMAIN hs
       /\ trim(toLowerCase(hs[Val(columnIndices[f])])) = COLUMN_MAP[f][Least(found)]

\* the columns the fields are bound to
BoundColumns == {Val(columnIndices[f]) : f \in {g \in TradeFields : IsDef(columnIndices[g])}}

\* the cells of a row with every cell outside the columns cols emptied
OnlyColumns(cells, cols) ==
  [i \in 1..Len(cells) |-> IF i \in cols THEN cells[i] ELSE <<>>]

\* row i, when it is as long as the header, has emitted the record made of
\* the cells of the bound columns alone, or none when these make none
C24_Row(i, cells, record) ==
  Len(cells) >= Len(Val(header)) =>
    /\ PushedAt(0, i) # {} <=> IsDef(record)
    /\ \A j \in PushedAt(0, i) : trades[j] = Val(record)

\* C24: once the CSV driver has read the header, each canonical field is
\* bound, for every row of the file, to the column of the first alias in
\* the alias table's order that equals some header cell case-insensitively
\* after trimming, and a field with no such alias is unmapped; the record of
\* a row is read from the bound columns only, also where a bound cell is
\* empty and another alias column of the field holds a value.
C24_BoundToFirstAlias ==
  (driver = "csv" /\ IsDef(header)) =>
    /\ \A f \in TradeFields :
         BoundToFirstAlias(Val(header), f, AliasesInHeader(Val(header), f))
    /\ \A i \in 2..Len(input) :
         C24_Row(i, parseCSVLine(input[i]),
                 parseCSVRow(OnlyColumns(parseCSVLine(input[i]), BoundColumns),
                             columnIndices))

\* under the header Symbol,Asset,Amount,Profit,P/L the asset is bound to
\* the column of 'asset' and the profit to that of 'profit'; a row with an
\* empty Profit cell has emitted a record with profit 0, not the 20 of its
\* P/L cell, and a row with an empty Asset cell has emitted nothing
C24_Witness ==
  /\ driver = "csv"
  /\ input = <<H_aliases, R_emptyProfit, R_emptyAsset>>
  /\ columnIndices.asset = Some(2)
  /\ columnIndices.profitAmount = Some(4)
  /\ ~IsDef(columnIndices.direction)
  /\ Len(trades) = 1
  /\ PushedAt(0, 2) = {1}
  /\ trades[1].asset = Some(<<"A","A","P","L">>)
  /\ IsZero(trades[1].profitAmount)

\* the places <<k, i>> of a row where key i matches alias k of field f and
\* the cell is not empty
FilledMatches(row, f) ==
  {h \in (DOMAIN COLUMN_MAP[f]) \X (DOMAIN row) :
     /\ trim(toLowerCase(row[h[2]].key)) = COLUMN_MAP[f][h[1]]
     /\ NonEmptyCell(row[h[2]].value)}

\* the first of them, in alias order and then in key order
FirstMatch(hits) ==
  CHOOSE h \in hits :
    \A g \in hits : h[1] < g[1] \/ (h[1] = g[1] /\ h[2] <= g[2])

\* the field as C25 states it: of the first matching key with a cell that
\* is not empty, unset when there is none
FirstFilled(row, f, hits) ==
  IF hits = {} THEN Undef ELSE Some(ExcelCoerce(f, row[FirstMatch(hits)[2]].value))

FirstFilledRecord(row) ==
  CompleteOrNull(RowDefaults([f \in TradeFields |-> FirstFilled(row, f, FilledMatches(row, f))]))

C25_Row(k, i, record) ==
  /\ PushedAt(k, i) # {} <=> IsDef(record)
  /\ \A j \in PushedAt(k, i) : trades[j] = Val(record)

\* no two keys of the row differ in letter case or outer blanks only
KeysDistinctInCase(row) ==
  \A i, j \in DOMAIN row :
    trim(toLowerCase(row[i].key)) = trim(toLowerCase(row[j].key)) => i = j

\* C25: the record of every spreadsheet row has each field from the first
\* key of the row, in alias order, that matches an alias of the field and
\* has a cell that is not empty, every matching key of the row being a
\* candidate, also keys that differ in letter case only; the field is unset
\* only when all matching keys have empty cells.
C25_FirstFilledKey ==
  driver = "excel" =>
    \A k \in DOMAIN workbook : \A i \in DOMAIN workbook[k] :
      C25_Row(k, i, FirstFilledRecord(workbook[k][i]))

\* C25 for the rows without two keys that differ in letter case only
C25_FirstFilledDistinctKey ==
  driver = "excel" =>
    \A k \in DOMAIN workbook : \A i \in DOMAIN workbook[k] :
      KeysDistinctInCase(workbook[k][i]) =>
        C25_Row(k, i, FirstFilledRecord(workbook[k][i]))

\* a row with the cells of the first aliases empty has emitted its record
\* from the later ones
C25_DistinctKeyWitness ==
  /\ driver = "excel"
  /\ workbook = <<<<X_aliases, X_empty>>>>
  /\ Len(trades) = 1
  /\ PushedAt(1, 1) = {1}
  /\ trades[1].asset = Some(<<"A","A","P","L">>)
  /\ IsNumber(trades[1].tradeAmount, 300, 0)
  /\ IsNumber(trades[1].profitAmount, 5, 0)

\* the '"' characters of line before position i are even in number
EvenQuotesBefore(line, i) ==
  Cardinality({q \in 1..(i - 1) : line[q] = "\""}) % 2 = 0

\* the commas of line that split it
SplittingCommas(line) ==
  {i \in 1..Len(line) : line[i] = "," /\ EvenQuotesBefore(line, i)}

\* C26: parseCSVLine toggles its quoting flag on every '"', so the flag is
\* the parity of the '"' characters read; what it returns has one field
\* more than the line has commas preceded by an even number of '"', no
\* field holds a '"', every field is trimmed, and the fields are the pieces
\* of the line between those commas.
C26_QuotedCommasDoNotSplit ==
  /\ scanner.phase = "loop" =>
       /\ scanner.inQuotes = ~EvenQuotesBefore(scanner.line, scanner.i)
       /\ Len(scanner.result) =
            Cardinality({c \in SplittingCommas(scanner.line) : c < scanner.i})
  /\ scanner.phase = "returned" =>
       /\ Len(scanner.result) = 1 + Cardinality(SplittingCommas(scanner.line))
       /\ \A k \in DOMAIN scanner.result :
            /\ \A c \in DOMAIN scanner.result[k] : scanner.result[k][c] # "\""
            /\ scanner.result[k] = trim(scanner.result[k])
       /\ scanner.result = SubSeq(parseCSVLine(scanner.line), 1,
                                  Len(parseCSVLine(scanner.line)))

\* a line of a quoted comma and a comma: the quoted comma is the first
\* field, the second comma splits, the second field is empty
C26_Witness ==
  /\ scanner.phase = "returned"
  /\ scanner.line = <<"\"", ",", "\"", ",">>
  /\ scanner.result = <<<<",">>, <<>>>>

\* C27: no record a driver has emitted holds NaN in a numeric field:
\* tradeAmount, profitAmount, openPrice and closePrice, where present, are
\* real numbers, also for key-value lines whose value is not numeric.
C27_NoNaNEmitted ==
  \A j \in DOMAIN trades : \A f \in NumberFields :
    IsDef(trades[j][f]) => ~Val(trades[j][f]).nan

\* C27 for the records of the two tabular importers
C27_NoNaNFromTables ==
  driver \in {"csv", "excel"} => C27_NoNaNEmitted

\* record j was appended by the key-value attempt of a line of the text,
\* and is complete
AppendedByItsLine(j, lines) ==
  /\ origin[j].at \in DOMAIN lines
  /\ IsDef(KeyValueMatch(lines[origin[j].at]))
  /\ isTradeComplete(trades[j])

\* C28: between the lines of a free-text call and at its end the key-value
\* accumulator is null, empty or incomplete; the check at the end of the
\* input has appended no record, and every key-value record was appended at
\* a key-value line.
C28_AccumulatorNeverComplete ==
  driver = "text" =>
    /\ IsDef(currentTrade) => ~isTradeComplete(Val(currentTrade))
    /\ \A j \in DOMAIN origin :
         /\ origin[j].kind # "end"
         /\ origin[j].kind = "kv" => AppendedByItsLine(j, NonBlank(input))

\* a finished call whose fourth line completed a record: the record was
\* appended at that line, the accumulator is null at the end
C28_Witness ==
  /\ driver = "text"
  /\ pc = "done"
  /\ input = <<Q_symbolPut, Q_profitAmount, Q_pl, Q_putPayout>>
  /\ origin = <<[sheet |-> 0, at |-> 4, kind |-> "kv"]>>
  /\ currentTrade = Undef

\* the row object {header[i]: cell[i]} of a header and the cells of a row
RowObject(hs, cells) ==
  SubSeq([i \in 1..Len(hs) |-> [key |-> hs[i], value |-> StrCell(cells[i])]], 1, Len(hs))

\* the CSV driver has emitted for row i what the spreadsheet extractor
\* makes of the row object: record, or nothing
Agree(i, record) ==
  /\ PushedAt(0, i) # {} <=> IsDef(record)
  /\ \A j \in PushedAt(0, i) : trades[j] = Val(record)

\* the columns of the header whose name is an alias of field f
AliasColumns(hs, f) ==
  {i \in DOMAIN hs : \E k \in DOMAIN COLUMN_MAP[f] : trim(toLowerCase(hs[i])) = COLUMN_MAP[f][k]}

\* the cell of the column field f is bound to is filled, or f is not the
\* profit and no alias column of f is filled
BoundCellDecides(hs, cells, f) ==
  IsDef(columnIndices[f]) =>
    \/ cells[Val(columnIndices[f])] # <<>>
    \/ /\ f # "profitAmount"
       /\ \A i \in AliasColumns(hs, f) : cells[i] = <<>>

\* the rows C29 is about: as long as the header
IsFullRow(cells) == Len(cells) >= Len(Val(header))

\* C29: for every header with distinct names and every row of string
\* cells, the CSV driver emits for the row the record the spreadsheet
\* extractor makes of the row object {header[i]: cell[i]}, or both emit
\* nothing, also when cells are empty and when the header holds several
\* aliases of one field.
C29_TablesAgree ==
  (driver = "csv" /\ IsDef(header)) =>
    \A i \in 2..Len(input) :
      IsFullRow(parseCSVLine(input[i])) =>
        Agree(i, parseExcelRow(RowObject(Val(header), parseCSVLine(input[i]))))

\* C29, amended: the two agree on every row in which, for each field the
\* header names, the cell of the first alias in table order is filled, or,
\* for a field other than the profit, no alias column of the field is
\* filled.
C29_TablesAgreeOnDecidedRows ==
  (driver = "csv" /\ IsDef(header)) =>
    \A i \in 2..Len(input) :
      (/\ IsFullRow(parseCSVLine(input[i]))
       /\ \A f \in TradeFields :
            BoundCellDecides(Val(header), parseCSVLine(input[i]), f)) =>
        Agree(i, parseExcelRow(RowObject(Val(header), parseCSVLine(input[i]))))

\* under a header with two aliases of the asset and of the profit a row
\* with all cells filled has emitted the record the extractor makes of it
C29_Witness ==
  /\ driver = "csv"
  /\ input = <<H_aliases, R_both, R_emptyProfit>>
  /\ \A f \in TradeFields : BoundCellDecides(Val(header), parseCSVLine(R_both), f)
  /\ PushedAt(0, 2) = {1}
  /\ Some(trades[1]) = parseExcelRow(RowObject(Val(header), parseCSVLine(R_both)))
  /\ trades[1].asset = Some(<<"A","A","P","L">>)
  /\ IsNumber(trades[1].profitAmount, 15, 0)

\* a row with an empty Side cell, on which the two agree
C29_WitnessEmptyCell ==
  /\ driver = "csv"
  /\ input = <<H_spaced, R_noside>>
  /\ \A f \in TradeFields : BoundCellDecides(Val(header), parseCSVLine(R_noside), f)
  /\ PushedAt(0, 2) = {1}
  /\ trades[1].direction = Some(S_call)
  /\ Some(trades[1]) = parseExcelRow(RowObject(Val(header), parseCSVLine(R_noside)))

\* C30: whenever a suggestion is displayed it was computed from the current
\* trade list and portfolio value: a response that answers an earlier trade
\* list is never shown after a trade was logged or the session was reset.
C30_SuggestionIsCurrent ==
  IsDef(dashboard.suggestion) =>
    Val(dashboard.suggestion).input = SuggestionInput(dashboard)

\* What holds: a suggestion is awaited exactly while the button is disabled,
\* and the suggestion on display answers the trade list and portfolio value
\* of the click that asked for it; logging a trade and resetting the session
\* clear the suggestion on display but leave the awaited call alone.
C30_AwaitedWhileSuggesting ==
  /\ dashboard.isSuggesting <=> IsDef(awaited)
  /\ dashboard.isSuggesting => dashboard.suggestion = Undef

\* a suggestion asked for before a trade was logged is on display after it
C30_StaleAfterTrade ==
  /\ IsDef(dashboard.suggestion)
  /\ Val(dashboard.suggestion).input.tradeHistory = <<>>
  /\ Len(dashboard.trades) = 1

\* a suggestion asked for before the session was reset is on display after it
C30_StaleAfterReset ==
  /\ IsDef(dashboard.suggestion)
  /\ Len(Val(dashboard.suggestion).input.tradeHistory) = 1
  /\ dashboard.trades = <<>>

=============================================================================
